---- MODULE Spec2Model ----
(***************************************************************************)
(* Phasor Handler: the elliptical ROI tool (tools/circle_roi.py), the      *)
(* trace extraction that reads its mask (widgets/analysis.py,              *)
(* widgets/analysis_components/trace_plot.py), the shared directory list   *)
(* (models/dir_manager.py), the registration worker                        *)
(* (workers/registration_worker.py) and the brightness/contrast dialog     *)
(* (tools/bnc.py).                                                         *)
(*                                                                         *)
(* Label-space coordinates are Python floats in the source.  Here they are *)
(* exact fixed-point numbers: one pixel is U units, and every quantity the *)
(* tool computes from the inputs below is a whole number of units, so the  *)
(* arithmetic is the source's arithmetic without floating-point error.     *)
(***************************************************************************)
EXTENDS Integers, Sequences, FiniteSets, TLC

\* ------------------------------------------------------------------------
\* Bounds and input sets
\* ------------------------------------------------------------------------

\* A mouse position inside the draw rect can lie 1/SubPix of a pixel from
\* its edge.
SubPix == 2

\* How many pixels outside the draw rect a drag travels.
Margin == 1

\* How many mouse events and selection calls (clear, clear_selection,
\* show_bbox_image_coords) a run makes on the tool.
MaxEvents == 5

\* The longest list of paths given to DirManager's constructor, add or remove.
MaxPaths == 2

\* The longest list of directories given to a RegistrationWorker.
MaxDirs == 2

\* How many slider changes, button clicks and channel changes a run makes on
\* a BnCDialog.
MaxBncEvents == 3

\* The number of calls a run makes on the z-projection buttons and the image.
MaxZprojEvents == 5

\* The views update_tif_frame can hand to the tool: the draw rect
\* <<left, top, width, height>> of the scaled pixmap (label pixels), the
\* image size <<w, h>>, the number of frames of the stack and whether the
\* experiment has a second channel: a square stack shown unscaled, a single
\* frame shown scaled, and a stack of frames one pixel high.
Geoms ==
  { [rect |-> <<0, 0, 2, 2>>, img |-> <<2, 2>>, frames |-> 2, chan2 |-> TRUE],
    [rect |-> <<1, 0, 2, 1>>, img |-> <<3, 2>>, frames |-> 1, chan2 |-> FALSE],
    [rect |-> <<0, 0, 2, 1>>, img |-> <<2, 1>>, frames |-> 2, chan2 |-> FALSE] }

\* Units per label pixel: a multiple of every image size of Geoms and of
\* every SubPix, so that the positions below and the image pixel boundaries
\* mapped to the label are whole units.
U == 2 * 2 * 3

None == <<>>

Min(a, b) == IF a <= b THEN a ELSE b
Max(a, b) == IF a >= b THEN a ELSE b
Abs(a) == IF a >= 0 THEN a ELSE -a

Buttons == {"left", "right"}


\* ------------------------------------------------------------------------
\* State
\* ------------------------------------------------------------------------

VARIABLES
  \* CircleRoiTool (tools/circle_roi.py)
  draw_rect,         \* _draw_rect: None or <<left, top, width, height>> in pixels
  img_size,          \* <<_img_w, _img_h>>, None before set_image_size
  base_pixmap,       \* _base_pixmap is not None
  start_pos,         \* _start_pos: None or <<x, y>> in units
  current_pos,       \* _current_pos
  bbox,              \* _bbox: None or <<left, top, width, height>> in units
  dragging,          \* _dragging
  mode,              \* _mode: "None", "draw" or "translate"
  translate_anchor,  \* _translate_anchor
  bbox_origin,       \* _bbox_origin
  roi_event,         \* the call handled last: [type, button, ret]
  roi_signals,       \* the signals that call emitted, in order: <<name, xyxy>>
  events,            \* the number of mouse events and selection calls so far
  translate_size,    \* <<w, h>> of the bbox at the right press of a translate
                     \* drag that only moves have followed; None otherwise
  \* main window and trace plot (widgets/analysis.py, trace_plot.py)
  current_tif,       \* window._current_tif: None or an array [frame][row][col]
  current_tif_chan2, \* window._current_tif_chan2
  last_roi_xyxy,     \* window._last_roi_xyxy
  \* _update_trace_from_roi's locals, when it is the call handled last
  \* (None otherwise):
  mask_result,       \* what get_ellipse_mask returned
  sig1,              \* channel 1 signal: one <<sum, n>> per frame, the mean
                     \* sum/n (<<0, 1>> is 0.0)
  sig2,              \* channel 2 signal, None without channel 2
  \* DirManager (models/dir_manager.py)
  dirs,              \* _dirs
  dir_call,          \* the call handled last: [op, paths]
  dir_before,        \* list() just before that call
  dir_emitted,       \* the payloads of directoriesChanged that call emitted
  \* RegistrationWorker (workers/registration_worker.py)
  reg_dirs,          \* self.dirs: what run() will meet in each directory
  reg_combine,       \* self.combine
  reg_script,        \* scripts/register.py exists
  reg_pc,            \* where run() is: "loop", "except", "finally", "done"
  reg_i,             \* the number of directories the loop has gone through
  reg_out,           \* the signals run() has emitted, in order
  reg_exc,           \* the exception the outer handler has caught
  reg_raised,        \* every exception raised so far, in order
  \* BnCDialog (tools/bnc.py)
  bnc_data,          \* <<_ch1_data, _ch2_data>>: None or what is known of an image
  bnc_channel,       \* _current_channel
  bnc_combo,         \* the number of items of channel_combo
  bnc_settings,      \* <<_settings['ch1'], _settings['ch2']>>, in 1/Q
  bnc_isint,         \* which of 'min' and 'max' still hold a Python int
  bnc_sliders,       \* the values of the four sliders
  bnc_timer,         \* _update_timer is active
  bnc_alive,         \* no slot has raised (an exception in a slot aborts)
  bnc_signals,       \* the payloads of settings_changed the last call emitted
  bnc_unsent,        \* the channels whose settings a slider has changed since
                     \* settings_changed was last emitted for them
  bnc_events,        \* the number of user events so far
  bnc_queue,         \* _update_queue: the update types waiting, oldest first
  bnc_stop,          \* _stop_processing is set
  bnc_worker,        \* where _process_updates is: "test", "get" or "exited"
  \* AnalysisWidget, the z-projection buttons (widgets/analysis.py)
  zproj_flags,       \* _zproj_std, _zproj_max, _zproj_mean
  zproj_buttons,     \* isChecked() of the three zproj_*_button
  zproj_ndim,        \* window._current_tif.ndim, 0 while _current_tif is None
  zproj_shown,       \* what update_tif_frame rendered last
  zproj_call,        \* the call handled last: [op, mode, checked]
  zproj_events,      \* the number of calls so far
  \* AnalysisWidget, the saved ROIs (widgets/analysis.py)
  editing_roi_index, \* _editing_roi_index: None or a row of the ROI list
  saved_rois,        \* the 'xyxy' of window._saved_rois, in order
  \* ImageViewWidget.load_experiment_data
  \* (widgets/analysis/components/image_view.py)
  load_in,           \* use_registered and what the directory holds
  load_result,       \* the dict the call returned, None before the call
  load_ran,          \* the loaders the call ran, in order
  \* SignalProcessor.extract_signals (sv/helper.py)
  sp_in,             \* the arguments of the call
  sp_out             \* what the call returned, None before the call

roi_vars == <<draw_rect, img_size, base_pixmap, start_pos, current_pos, bbox,
              dragging, mode, translate_anchor, bbox_origin, roi_event,
              roi_signals, events, translate_size>>

trace_vars == <<current_tif, current_tif_chan2, last_roi_xyxy, mask_result,
                sig1, sig2>>

dir_vars == <<dirs, dir_call, dir_before, dir_emitted>>

reg_vars == <<reg_dirs, reg_combine, reg_script, reg_pc, reg_i, reg_out,
              reg_exc, reg_raised>>

bnc_vars == <<bnc_data, bnc_channel, bnc_combo, bnc_settings, bnc_isint,
              bnc_sliders, bnc_timer, bnc_alive, bnc_signals, bnc_unsent,
              bnc_events, bnc_queue, bnc_stop, bnc_worker>>

\* What the slots of the GUI thread leave alone of the processing thread:
\* the _queue_update the class keeps never touches the queue.
bnc_thread == <<bnc_queue, bnc_stop, bnc_worker>>

zproj_vars == <<zproj_flags, zproj_buttons, zproj_ndim, zproj_shown,
                zproj_call, zproj_events>>

key_vars == <<editing_roi_index, saved_rois>>

load_vars == <<load_in, load_result, load_ran>>

sp_vars == <<sp_in, sp_out>>

vars == <<roi_vars, trace_vars, dir_vars, reg_vars, bnc_vars, zproj_vars,
          key_vars, load_vars, sp_vars>>

\* What a BnCDialog leaves alone.
beside_bnc == <<load_vars, sp_vars, roi_vars, trace_vars, dir_vars, reg_vars, zproj_vars, key_vars>>

\* What the tool and the trace leave alone.
beside_roi == <<load_vars, sp_vars, dir_vars, reg_vars, bnc_vars, zproj_vars, key_vars>>

\* What a DirManager leaves alone.
beside_dir == <<load_vars, sp_vars, roi_vars, trace_vars, reg_vars, bnc_vars, zproj_vars, key_vars>>

\* What a RegistrationWorker leaves alone.
beside_reg == <<load_vars, sp_vars, roi_vars, trace_vars, dir_vars, bnc_vars, zproj_vars, key_vars>>

\* What the z-projection buttons leave alone.
beside_zproj == <<load_vars, sp_vars, roi_vars, trace_vars, dir_vars, reg_vars, bnc_vars, key_vars>>

\* What the key handlers of the analysis tab leave alone.
beside_keys == <<dir_vars, reg_vars, bnc_vars, zproj_vars, load_vars, sp_vars>>

\* What load_experiment_data leaves alone.
beside_load == <<roi_vars, trace_vars, dir_vars, reg_vars, bnc_vars,
                 zproj_vars, key_vars, sp_vars>>

\* What extract_signals leaves alone.
beside_sp == <<roi_vars, trace_vars, dir_vars, reg_vars, bnc_vars,
               zproj_vars, key_vars, load_vars>>

\* ------------------------------------------------------------------------
\* Rounding
\* ------------------------------------------------------------------------

\* Python's round() of n/d (d > 0), as a truncation would give it.
RoundTrunc(n, d) == n \div d

\* Python's round() of the rational n/d (d > 0): to the nearest integer, a
\* tie to the even one.
PyRound(n, d) ==
  LET q == n \div d
      r == n % d
  IN  IF 2 * r < d THEN q
      ELSE IF 2 * r > d THEN q + 1
      ELSE IF q % 2 = 0 THEN q ELSE q + 1

\* QPointF.toPoint() on one coordinate of v units: to the nearest pixel, a
\* tie away from zero.
ToPoint(v) ==
  IF v >= 0 THEN (2 * v + U) \div (2 * U)
  ELSE -(((2 * (-v)) + U) \div (2 * U))

\* ------------------------------------------------------------------------
\* CircleRoiTool helpers
\* ------------------------------------------------------------------------

\* _in_draw_rect: QRect.contains(posf.toPoint())
InDrawRect(rect, p) ==
  /\ rect # None
  /\ rect[3] > 0 /\ rect[4] > 0
  /\ rect[1] <= ToPoint(p[1]) /\ ToPoint(p[1]) <= rect[1] + rect[3] - 1
  /\ rect[2] <= ToPoint(p[2]) /\ ToPoint(p[2]) <= rect[2] + rect[4] - 1

\* _constrain_to_draw_rect returns the raw position (no clamping).
ConstrainToDrawRect(p) == p

\* _update_bbox_from_points: the value it assigns to _bbox.
UpdateBboxFromPoints(s, c) ==
  IF s = None \/ c = None THEN None
  ELSE <<Min(s[1], c[1]), Min(s[2], c[2]),
         Max(U, Abs(c[1] - s[1])), Max(U, Abs(c[2] - s[2]))>>

\* An alternative to InBboxMargin: inside the bbox itself.
InBboxExact(b, p) ==
  /\ b[1] <= p[1] /\ p[1] <= b[1] + b[3]
  /\ b[2] <= p[2] /\ p[2] <= b[2] + b[4]

\* The press hit test of a right button: inside the bbox grown by one pixel.
InBboxMargin(b, p) ==
  /\ b[1] - U <= p[1] /\ p[1] <= b[1] + b[3] + U
  /\ b[2] - U <= p[2] /\ p[2] <= b[2] + b[4] + U

\* The translate branch of a mouse move with the size recomputed from the
\* clamped edges.
TranslatedBboxResized(origin, anchor, pos, rect) ==
  LET nl == origin[1] + (pos[1] - anchor[1])
      nt == origin[2] + (pos[2] - anchor[2])
  IN  IF rect = None THEN <<nl, nt, origin[3], origin[4]>>
      ELSE LET dl == rect[1] * U
               dt == rect[2] * U
               dr == (rect[1] + rect[3]) * U
               db == (rect[2] + rect[4]) * U
               l == Max(nl, dl)
               t == Max(nt, dt)
           IN  <<l, t, Max(U, Min(l + origin[3], dr) - l),
                       Max(U, Min(t + origin[4], db) - t)>>

\* The translate branch of a mouse move: the value it assigns to _bbox.
TranslatedBbox(origin, anchor, pos, rect) ==
  LET dx == pos[1] - anchor[1]
      dy == pos[2] - anchor[2]
      ow == origin[3]
      oh == origin[4]
      nl0 == origin[1] + dx
      nt0 == origin[2] + dy
  IN  IF rect = None THEN <<nl0, nt0, ow, oh>>
      ELSE LET dl == rect[1] * U
               dt == rect[2] * U
               dr == (rect[1] + rect[3]) * U
               db == (rect[2] + rect[4]) * U
               nl1 == IF nl0 < dl THEN dl ELSE nl0
               nt1 == IF nt0 < dt THEN dt ELSE nt0
               nl2 == IF nl1 + ow > dr THEN dr - ow ELSE nl1
               nt2 == IF nt1 + oh > db THEN db - oh ELSE nt1
           IN  <<nl2, nt2, ow, oh>>

\* round(n * size) of _current_roi_image_coords with int() in place of round().
ScaleRoundTrunc(off, pw, size) == RoundTrunc(off * size, U * Max(pw, 1))

\* int(round(((v - dl) / max(pw, 1.0)) * size)) for an offset of off units
\* from the draw rect's edge.
ScaleRound(off, pw, size) == PyRound(off * size, U * Max(pw, 1))

\* An alternative to CurrentRoiImageCoords: the scaled rectangle is returned
\* without the test for an empty one.
CurrentRoiImageCoordsUnchecked(b, rect, img, pm) ==
  IF b = None THEN None
  ELSE IF rect = None \/ img = None THEN None
  ELSE IF ~pm THEN None
  ELSE
    LET left == b[1]
        top == b[2]
        right == b[1] + b[3]
        bottom == b[2] + b[4]
        dl == rect[1] * U
        dt == rect[2] * U
        dr == (rect[1] + rect[3]) * U
        db == (rect[2] + rect[4]) * U
        inter_left == Max(left, dl)
        inter_top == Max(top, dt)
        inter_right == Min(right, dr)
        inter_bottom == Min(bottom, db)
    IN  IF inter_right <= inter_left \/ inter_bottom <= inter_top THEN None
        ELSE
          LET X0 == Max(0, Min(ScaleRound(inter_left - dl, rect[3], img[1]), img[1]))
              X1 == Max(0, Min(ScaleRound(inter_right - dl, rect[3], img[1]), img[1]))
              Y0 == Max(0, Min(ScaleRound(inter_top - dt, rect[4], img[2]), img[2]))
              Y1 == Max(0, Min(ScaleRound(inter_bottom - dt, rect[4], img[2]), img[2]))
          IN  <<X0, Y0, X1, Y1>>

\* _current_roi_image_coords for bbox b: None or <<X0, Y0, X1, Y1>>.
CurrentRoiImageCoords(b, rect, img, pm) ==
  IF b = None THEN None
  ELSE IF rect = None \/ img = None THEN None
  ELSE IF ~pm THEN None
  ELSE
    LET left == b[1]
        top == b[2]
        right == b[1] + b[3]
        bottom == b[2] + b[4]
        dl == rect[1] * U
        dt == rect[2] * U
        dr == (rect[1] + rect[3]) * U
        db == (rect[2] + rect[4]) * U
        inter_left == Max(left, dl)
        inter_top == Max(top, dt)
        inter_right == Min(right, dr)
        inter_bottom == Min(bottom, db)
    IN  IF inter_right <= inter_left \/ inter_bottom <= inter_top THEN None
        ELSE
          LET X0 == Max(0, Min(ScaleRound(inter_left - dl, rect[3], img[1]), img[1]))
              X1 == Max(0, Min(ScaleRound(inter_right - dl, rect[3], img[1]), img[1]))
              Y0 == Max(0, Min(ScaleRound(inter_top - dt, rect[4], img[2]), img[2]))
              Y1 == Max(0, Min(ScaleRound(inter_bottom - dt, rect[4], img[2]), img[2]))
          IN  IF X1 <= X0 \/ Y1 <= Y0 THEN None ELSE <<X0, Y0, X1, Y1>>

\* The signal a handler emits after computing xyxy: none when xyxy is None.
Emit(name, xyxy) == IF xyxy = None THEN <<>> ELSE << <<name, xyxy>> >>


\* ------------------------------------------------------------------------
\* get_ellipse_mask
\* ------------------------------------------------------------------------

\* (nx * nx + ny * ny) <= 1.0 at x, y for the box X0..X1, Y0..Y1, with
\* nx = (x - cx) / rx, cx = (X0 + X1) / 2.0, rx = max(0.5, (X1 - X0) / 2.0),
\* every fraction cleared of its denominators.
InEllipse(x, y, X0, Y0, X1, Y1) ==
  LET a == 2 * x - (X0 + X1)
      b == 2 * y - (Y0 + Y1)
      c == Max(1, X1 - X0)
      d == Max(1, Y1 - Y0)
  IN  a * a * d * d + b * b * c * c <= c * c * d * d

\* np.meshgrid(ys, xs, indexing='xy') gives arrays of shape (len(xs), len(ys))
\* with yy[i][j] = ys[j] and xx[i][j] = xs[i]; the comparison gives this array.
MeshMask(X0, Y0, X1, Y1) ==
  [i \in 1..(X1 - X0) |->
     [j \in 1..(Y1 - Y0) |-> InEllipse(X0 + i - 1, Y0 + j - 1, X0, Y0, X1, Y1)]]

\* mask.T of an array of shape (n, m), m taken from the caller.
Transpose(a, m) == [j \in 1..m |-> [i \in 1..Len(a) |-> a[i][j]]]

\* The mask with the final transposition left out.
EllipseMaskNoT(xyxy) == MeshMask(xyxy[1], xyxy[2], xyxy[3], xyxy[4])

\* The boolean array of get_ellipse_mask for image coords xyxy.
EllipseMask(xyxy) ==
  Transpose(MeshMask(xyxy[1], xyxy[2], xyxy[3], xyxy[4]), xyxy[4] - xyxy[2])

\* get_ellipse_mask: None or <<X0, Y0, X1, Y1, mask>>.
GetEllipseMask(b, rect, img, pm) ==
  LET c == CurrentRoiImageCoords(b, rect, img, pm)
  IN  IF c = None THEN None
      ELSE IF c[4] - c[2] <= 0 \/ c[3] - c[1] <= 0 THEN None
      ELSE <<c[1], c[2], c[3], c[4], EllipseMask(c)>>

\* ------------------------------------------------------------------------
\* _update_trace_from_roi
\* ------------------------------------------------------------------------

\* The shape of a rectangular array given as rows of columns.
Shape(a) == <<Len(a), IF Len(a) = 0 THEN 0 ELSE Len(a[1])>>

\* a[lo:hi] of a Python sequence (0 <= lo, hi).
Slice(a, lo, hi) == SubSeq(a, lo + 1, Min(hi, Len(a)))

\* frame[Y0:Y1, X0:X1]
SliceFrame(frame, X0, Y0, X1, Y1) ==
  LET rows == Slice(frame, Y0, Y1)
  IN  [r \in 1..Len(rows) |-> Slice(rows[r], X0, X1)]

RECURSIVE SumSeq(_)
SumSeq(s) == IF s = <<>> THEN 0 ELSE s[1] + SumSeq(Tail(s))

RECURSIVE Flatten(_)
Flatten(rows) == IF rows = <<>> THEN <<>> ELSE rows[1] \o Flatten(Tail(rows))

\* frame[mask]: the values at the True positions, in row-major order.
SelectMask(vals, flags) ==
  SelectSeq([i \in 1..Len(vals) |-> <<vals[i], flags[i]>>], LAMBDA e : e[2])

\* np.mean(frame[mask]) if len(masked_values) > 0 else 0.0, as <<sum, n>>.
MaskedMean(frame, mask) ==
  LET sel == SelectMask(Flatten(frame), Flatten(mask))
  IN  IF Len(sel) > 0
        THEN <<SumSeq([i \in 1..Len(sel) |-> sel[i][1]]), Len(sel)>>
        ELSE <<0, 1>>

\* np.any(mask)
AnyMask(mask) == \E r \in 1..Len(mask) : \E c \in 1..Len(mask[r]) : mask[r][c]

\* mask.size
MaskSize(mask) == Shape(mask)[1] * Shape(mask)[2]

\* stack3d(a) for a stack [frame][row][col]: np.asarray(a).squeeze() drops
\* every axis of length 1, and a 2-D result gets a leading axis.
Stack3d(a) ==
  LET T == Len(a)
      H == Len(a[1])
      W == Len(a[1][1])
  IN  IF H >= 2 /\ W >= 2
        THEN IF T = 1 THEN << a[1] >> ELSE a
      ELSE IF H = 1 /\ W >= 2 /\ T >= 2
        THEN << [t \in 1..T |-> a[t][1]] >>
      ELSE IF W = 1 /\ H >= 2 /\ T >= 2
        THEN << [t \in 1..T |-> [h \in 1..H |-> a[t][h][1]]] >>
      ELSE a

\* One channel's signal for the mask result m = <<X0, Y0, X1, Y1, mask>>.
ChannelSignal(stack, m) ==
  LET ch == Stack3d(stack)
      mask == m[5]
  IN  IF MaskSize(mask) > 0 /\ AnyMask(mask)
        THEN [f \in 1..Len(ch) |->
                LET frame == SliceFrame(ch[f], m[1], m[2], m[3], m[4])
                IN  IF Shape(frame) = Shape(mask)
                      THEN MaskedMean(frame, mask)
                      ELSE <<0, 1>>]
        ELSE [f \in 1..Len(ch) |-> <<0, 1>>]

\* mean(axis=(1, 2)) of ch[:, y0:y1, x0:x1], the rectangular fallback.
RectSignal(stack, xyxy) ==
  LET ch == Stack3d(stack)
  IN  [f \in 1..Len(ch) |->
         LET vals == Flatten(SliceFrame(ch[f], xyxy[1], xyxy[2], xyxy[3], xyxy[4]))
         IN  <<SumSeq(vals), Len(vals)>>]


\* ------------------------------------------------------------------------
\* Inputs
\* ------------------------------------------------------------------------

\* The pixel of channel ch at frame f, row r, column c (all from 0) of the
\* stack loaded for a view.
Pixel(ch, f, r, c) == (5 * ch + 7 * f + 3 * r + c * c + r * c) % 11

\* The registered stack of channel ch for view g.
Tif(g, ch) ==
  [f \in 1..g.frames |->
     [r \in 1..g.img[2] |->
        [c \in 1..g.img[1] |-> Pixel(ch, f - 1, r - 1, c - 1)]]]

\* The positions a mouse event reports, for a draw rect with top-left corner
\* (L, T) and size (W, H): the corner itself, a point 1/SubPix of a pixel to
\* its right and one pixel below, the opposite corner (just outside the
\* rect's pixels), and the two points Margin pixels outside the rect beyond
\* either corner.
PointsOf(rect) ==
  LET L == rect[1] * U
      T == rect[2] * U
      W == rect[3] * U
      H == rect[4] * U
  IN  { <<L, T>>,
        <<L + U \div SubPix, T + U>>,
        <<L + W, T + H>>,
        <<L - Margin * U, T - Margin * U>>,
        <<L + W + Margin * U, T + H + Margin * U>> }

MousePts == IF draw_rect = None THEN { <<0, 0>> } ELSE PointsOf(draw_rect)

\* The image rectangles a caller can pass to show_bbox_image_coords.
ImageRects ==
  IF img_size = None THEN { <<0, 0, 1, 1>> }
  ELSE { <<x0, y0, x1, y1>> : x0 \in {0, 1}, y0 \in {0},
                              x1 \in {1, img_size[1]}, y1 \in {img_size[2]} }

Call(type, button, ret) == [type |-> type, button |-> button, ret |-> ret]

\* ------------------------------------------------------------------------
\* CircleRoiTool: construction and public API
\* ------------------------------------------------------------------------

RoiInit ==
  /\ draw_rect = None
  /\ img_size = None
  /\ base_pixmap = FALSE
  /\ start_pos = None
  /\ current_pos = None
  /\ bbox = None
  /\ dragging = FALSE
  /\ mode = "None"
  /\ translate_anchor = None
  /\ bbox_origin = None
  /\ roi_event = Call("init", "none", FALSE)
  /\ roi_signals = <<>>
  /\ events = 0
  /\ translate_size = None

TraceInit ==
  /\ current_tif = None
  /\ current_tif_chan2 = None
  /\ last_roi_xyxy = None
  /\ mask_result = None
  /\ sig1 = None
  /\ sig2 = None

\* A mouse event or selection call counts towards the run's bound.
Count == events < MaxEvents /\ events' = events + 1

\* The locals of a trace update are gone once another call is handled.
NoTrace == mask_result' = None /\ sig1' = None /\ sig2' = None

\* A frame of the loaded stack is shown: set_pixmap, set_draw_rect,
\* set_image_size.  One experiment is viewed per run.
UpdateTifFrame(g) ==
  /\ draw_rect = None \/ (draw_rect = g.rect /\ img_size = g.img)
  /\ base_pixmap' = TRUE
  /\ draw_rect' = g.rect
  /\ img_size' = g.img
  /\ current_tif' = Tif(g, 0)
  /\ current_tif_chan2' = IF g.chan2 THEN Tif(g, 1) ELSE None
  /\ translate_size' = None
  /\ UNCHANGED <<start_pos, current_pos, bbox, dragging, mode,
                 translate_anchor, bbox_origin, roi_event, roi_signals, events,
                 last_roi_xyxy>>
  /\ NoTrace
  /\ UNCHANGED beside_roi

\* clear()
Clear ==
  /\ start_pos' = None
  /\ current_pos' = None
  /\ bbox' = None
  /\ dragging' = FALSE
  /\ roi_event' = Call("clear", "none", FALSE)
  /\ roi_signals' = <<>>
  /\ translate_size' = None
  /\ UNCHANGED <<draw_rect, img_size, base_pixmap, mode, translate_anchor,
                 bbox_origin>>
  /\ Count
  /\ UNCHANGED <<current_tif, current_tif_chan2, last_roi_xyxy>>
  /\ NoTrace
  /\ UNCHANGED beside_roi

\* clear_selection()
ClearSelection ==
  /\ start_pos' = None
  /\ current_pos' = None
  /\ bbox' = None
  /\ dragging' = FALSE
  /\ roi_event' = Call("clear_selection", "none", FALSE)
  /\ roi_signals' = <<>>
  /\ translate_size' = None
  /\ UNCHANGED <<draw_rect, img_size, base_pixmap, mode, translate_anchor,
                 bbox_origin>>
  /\ Count
  /\ UNCHANGED <<current_tif, current_tif_chan2, last_roi_xyxy>>
  /\ NoTrace
  /\ UNCHANGED beside_roi

\* The label bbox show_bbox_image_coords computes for image coords xyxy.
LabelBbox(xyxy, rect, img) ==
  LET lx0 == rect[1] * U + (xyxy[1] * rect[3] * U) \div Max(1, img[1])
      ly0 == rect[2] * U + (xyxy[2] * rect[4] * U) \div Max(1, img[2])
      lx1 == rect[1] * U + (xyxy[3] * rect[3] * U) \div Max(1, img[1])
      ly1 == rect[2] * U + (xyxy[4] * rect[4] * U) \div Max(1, img[2])
  IN  <<lx0, ly0, Max(U, lx1 - lx0), Max(U, ly1 - ly0)>>

\* show_bbox_image_coords(xyxy), xyxy not None
ShowBboxImageCoords(xyxy) ==
  LET ok == draw_rect # None /\ img_size # None /\ base_pixmap
  IN  /\ bbox' = IF ok THEN LabelBbox(xyxy, draw_rect, img_size) ELSE bbox
      /\ roi_event' = Call("show_bbox_image_coords", "none", ok)
      /\ roi_signals' = <<>>
      /\ translate_size' = None
      /\ UNCHANGED <<draw_rect, img_size, base_pixmap, start_pos, current_pos,
                     dragging, mode, translate_anchor, bbox_origin>>
      /\ Count
      /\ UNCHANGED <<current_tif, current_tif_chan2, last_roi_xyxy>>
      /\ NoTrace
      /\ UNCHANGED beside_roi


\* ------------------------------------------------------------------------
\* CircleRoiTool.eventFilter
\* ------------------------------------------------------------------------

\* The slot connected to roiFinalized stores the emitted tuple
\* (_on_roi_finalized: window._last_roi_xyxy = xyxy).
OnRoiFinalized(xyxy) == IF xyxy = None THEN last_roi_xyxy ELSE xyxy

\* MouseButtonPress with button b at position p
MousePress(b, p) ==
  LET startDraw == b = "left" /\ InDrawRect(draw_rect, p)
      startTranslate == /\ ~startDraw
                        /\ b = "right"
                        /\ bbox # None
                        /\ InBboxMargin(bbox, p)
  IN  /\ Count
      /\ mode' = IF startDraw THEN "draw"
                 ELSE IF startTranslate THEN "translate" ELSE mode
      /\ dragging' = IF startDraw \/ startTranslate THEN TRUE ELSE dragging
      /\ start_pos' = IF startDraw THEN p ELSE start_pos
      /\ current_pos' = IF startDraw THEN p ELSE current_pos
      /\ bbox' = IF startDraw THEN UpdateBboxFromPoints(p, p) ELSE bbox
      /\ translate_anchor' = IF startTranslate THEN p ELSE translate_anchor
      /\ bbox_origin' = IF startTranslate THEN bbox ELSE bbox_origin
      /\ roi_event' = Call("press", b, startDraw \/ startTranslate)
      /\ roi_signals' = <<>>
      /\ translate_size' = IF startTranslate THEN <<bbox[3], bbox[4]>> ELSE None
      /\ UNCHANGED <<draw_rect, img_size, base_pixmap>>
      /\ UNCHANGED <<current_tif, current_tif_chan2, last_roi_xyxy>>
      /\ NoTrace
      /\ UNCHANGED beside_roi

\* MouseMove at position p
MouseMove(p) ==
  LET pos == ConstrainToDrawRect(p)
      drawMove == dragging /\ mode = "draw" /\ start_pos # None
      translateMove == /\ dragging
                       /\ ~drawMove
                       /\ mode = "translate"
                       /\ bbox_origin # None
                       /\ translate_anchor # None
      newBbox == IF drawMove THEN UpdateBboxFromPoints(start_pos, pos)
                 ELSE IF translateMove
                   THEN TranslatedBbox(bbox_origin, translate_anchor, pos, draw_rect)
                 ELSE bbox
      xyxy == CurrentRoiImageCoords(newBbox, draw_rect, img_size, base_pixmap)
  IN  /\ Count
      /\ current_pos' = IF drawMove THEN pos ELSE current_pos
      /\ bbox' = newBbox
      /\ roi_signals' = IF drawMove \/ translateMove
                          THEN Emit("roiChanged", xyxy) ELSE <<>>
      /\ roi_event' = Call("move", "none", drawMove \/ translateMove)
      /\ translate_size' = translate_size
      /\ UNCHANGED <<draw_rect, img_size, base_pixmap, start_pos, dragging,
                     mode, translate_anchor, bbox_origin>>
      /\ UNCHANGED <<current_tif, current_tif_chan2, last_roi_xyxy>>
      /\ NoTrace
      /\ UNCHANGED beside_roi

\* The release branch that finalizes a draw, without the test of _dragging.
EndsDrawUnchecked(b) == mode = "draw" /\ b = "left"

\* MouseButtonRelease: the branch that finalizes a draw is taken.
EndsDraw(b) == dragging /\ mode = "draw" /\ b = "left"

\* MouseButtonRelease: the branch that finalizes a translation is taken.
EndsTranslate(b) ==
  dragging /\ ~EndsDraw(b) /\ mode = "translate" /\ b = "right"

\* MouseButtonRelease of button b at position p
MouseRelease(b, p) ==
  LET endDraw == EndsDraw(b)
      endTranslate == EndsTranslate(b)
      newPos == IF endDraw THEN ConstrainToDrawRect(p) ELSE current_pos
      newBbox == IF endDraw THEN UpdateBboxFromPoints(start_pos, newPos) ELSE bbox
      xyxy == CurrentRoiImageCoords(newBbox, draw_rect, img_size, base_pixmap)
      done == endDraw \/ endTranslate
  IN  /\ Count
      /\ dragging' = IF done THEN FALSE ELSE dragging
      /\ current_pos' = newPos
      /\ bbox' = newBbox
      /\ translate_anchor' = IF endTranslate THEN None ELSE translate_anchor
      /\ bbox_origin' = IF endTranslate THEN None ELSE bbox_origin
      /\ mode' = IF done THEN "None" ELSE mode
      /\ roi_signals' = IF done THEN Emit("roiFinalized", xyxy) ELSE <<>>
      /\ roi_event' = Call("release", b, done)
      /\ translate_size' = IF endTranslate THEN translate_size ELSE None
      /\ last_roi_xyxy' = IF done THEN OnRoiFinalized(xyxy) ELSE last_roi_xyxy
      /\ UNCHANGED <<draw_rect, img_size, base_pixmap, start_pos>>
      /\ UNCHANGED <<current_tif, current_tif_chan2>>
      /\ NoTrace
      /\ UNCHANGED beside_roi

\* _update_trace_from_roi with a stack loaded and an ROI finalized (it
\* returns at once otherwise): the signals it computes.
UpdateTraceFromRoi ==
  /\ current_tif # None
  /\ last_roi_xyxy # None
  /\ LET m == GetEllipseMask(bbox, draw_rect, img_size, base_pixmap)
         r == last_roi_xyxy
     IN  /\ mask_result' = m
         /\ sig1' = IF m = None
                      THEN IF r[3] > r[1] /\ r[4] > r[2]
                             THEN RectSignal(current_tif, r)
                             ELSE [f \in 1..Len(Stack3d(current_tif)) |-> <<0, 1>>]
                      ELSE ChannelSignal(current_tif, m)
         /\ sig2' = IF current_tif_chan2 = None THEN None
                    ELSE IF m = None THEN RectSignal(current_tif_chan2, r)
                    ELSE ChannelSignal(current_tif_chan2, m)
  /\ UNCHANGED roi_vars
  /\ UNCHANGED <<current_tif, current_tif_chan2, last_roi_xyxy>>
  /\ UNCHANGED beside_roi

\* ------------------------------------------------------------------------
\* DirManager
\* ------------------------------------------------------------------------

\* The paths a caller names.
Paths == {"a", "b", "c"}

\* The lists of at most n elements of S.
SeqsUpTo(S, n) == UNION { [1..k -> S] : k \in 0..n }

\* The lists of paths a caller passes.
PathLists == SeqsUpTo(Paths, MaxPaths)

\* p in d
Contains(d, p) == \E i \in 1..Len(d) : d[i] = p

\* d.remove(p) for p in d: the first occurrence goes.
RemoveFirst(d, p) ==
  LET i == CHOOSE k \in 1..Len(d) : d[k] = p /\ \A j \in 1..(k - 1) : d[j] # p
  IN  SubSeq(d, 1, i - 1) \o SubSeq(d, i + 1, Len(d))

RECURSIVE AddLoop(_, _, _)
\* The loop of add: [dirs, changed] after it.
AddLoop(d, paths, changed) ==
  IF paths = <<>> THEN [dirs |-> d, changed |-> changed]
  ELSE IF ~Contains(d, Head(paths))
    THEN AddLoop(Append(d, Head(paths)), Tail(paths), TRUE)
    ELSE AddLoop(d, Tail(paths), changed)

RECURSIVE RemoveLoop(_, _, _)
\* The loop of remove: [dirs, changed] after it.
RemoveLoop(d, paths, changed) ==
  IF paths = <<>> THEN [dirs |-> d, changed |-> changed]
  ELSE IF Contains(d, Head(paths))
    THEN RemoveLoop(RemoveFirst(d, Head(paths)), Tail(paths), TRUE)
    ELSE RemoveLoop(d, Tail(paths), changed)

\* list(): a copy of _dirs.
DirList(d) == [i \in 1..Len(d) |-> d[i]]

\* clear() with the test of _dirs left out.
ClearAlways(d) == TRUE

\* clear(): if self._dirs
ClearChanges(d) == d # <<>>

DirCall(op, paths) == [op |-> op, paths |-> paths]

\* DirManager(dirs)
DirNew(d) ==
  /\ dirs = d
  /\ dir_call = DirCall("init", d)
  /\ dir_before = d
  /\ dir_emitted = <<>>

\* add(paths)
DirAdd(paths) ==
  LET r == AddLoop(dirs, paths, FALSE)
  IN  /\ dirs' = r.dirs
      /\ dir_emitted' = IF r.changed THEN << DirList(r.dirs) >> ELSE <<>>
      /\ dir_call' = DirCall("add", paths)
      /\ dir_before' = DirList(dirs)
      /\ UNCHANGED beside_dir

\* remove(paths)
DirRemove(paths) ==
  LET r == RemoveLoop(dirs, paths, FALSE)
  IN  /\ dirs' = r.dirs
      /\ dir_emitted' = IF r.changed THEN << DirList(r.dirs) >> ELSE <<>>
      /\ dir_call' = DirCall("remove", paths)
      /\ dir_before' = DirList(dirs)
      /\ UNCHANGED beside_dir

\* clear()
DirClear ==
  /\ dirs' = IF ClearChanges(dirs) THEN <<>> ELSE dirs
  /\ dir_emitted' = IF ClearChanges(dirs) THEN << <<>> >> ELSE <<>>
  /\ dir_call' = DirCall("clear", <<>>)
  /\ dir_before' = DirList(dirs)
  /\ UNCHANGED beside_dir

\* ------------------------------------------------------------------------
\* RegistrationWorker.run
\* ------------------------------------------------------------------------

\* What run() can meet in a directory: whether suite2p/ exists already, how
\* far the registration gets (fate), how many lines the subprocess prints,
\* and what combining finds in reg_tif (ch1) and reg_tif_chan2 (ch2).
DirCases ==
  { [exists |-> FALSE, fate |-> "listdir_raises", lines |-> 0,
     ch1 |-> "no_folder", ch2 |-> "no_folder"],
    [exists |-> TRUE, fate |-> "remove_raises", lines |-> 0,
     ch1 |-> "no_folder", ch2 |-> "no_folder"],
    [exists |-> FALSE, fate |-> "no_tif", lines |-> 0,
     ch1 |-> "no_folder", ch2 |-> "no_folder"],
    [exists |-> TRUE, fate |-> "popen_raises", lines |-> 0,
     ch1 |-> "no_folder", ch2 |-> "no_folder"],
    [exists |-> FALSE, fate |-> "exit_nonzero", lines |-> 1,
     ch1 |-> "no_folder", ch2 |-> "no_tifs"],
    [exists |-> TRUE, fate |-> "exit_zero", lines |-> 1,
     ch1 |-> "concat_ok", ch2 |-> "no_folder"],
    [exists |-> FALSE, fate |-> "exit_zero", lines |-> 0,
     ch1 |-> "concat_raises", ch2 |-> "concat_ok"] }

Log(text, i) == <<"log", text, i>>

\* The lines of one pass of the loop over ("reg_tif", "Ch1-reg.tif"),
\* ("reg_tif_chan2", "Ch2-reg.tif") for a folder found in state c.
CombineOne(c, i) ==
  IF c = "no_folder" THEN << Log("No folder", i) >>
  ELSE IF c = "no_tifs" THEN << Log("No .tif files found", i) >>
  ELSE IF c = "concat_raises"
    THEN << Log("Combining", i), Log("FAILED to combine", i) >>
  ELSE << Log("Combining", i), Log("Combine done", i) >>

\* if self.combine: ... else: "Skipping concatenation..."
CombineLines(d, i) ==
  IF reg_combine THEN CombineOne(d.ch1, i) \o CombineOne(d.ch2, i)
  ELSE << Log("Skipping concatenation", i) >>

\* The exceptions tiff_concat raises in the combine loop of directory i.
CombineRaised(d, i) ==
  IF ~reg_combine THEN <<>>
  ELSE (IF d.ch1 = "concat_raises" THEN << <<"tiff_concat", i>> >> ELSE <<>>)
       \o (IF d.ch2 = "concat_raises" THEN << <<"tiff_concat", i>> >> ELSE <<>>)

\* One iteration of the loop, for directory number i (from 1) of n:
\* the signals it emits, the exceptions raised, and the exception that leaves
\* the loop (None when the iteration ends or continues).
Iteration(d, i, n) ==
  LET head == << <<"log", "Registering", i, n>> >>
                \o (IF d.exists THEN << Log("Registration exists", i) >> ELSE <<>>)
      proc == [k \in 1..d.lines |-> Log("output", i)]
  IN  IF d.exists /\ d.fate = "remove_raises"
        THEN [out |-> head, raised |-> << <<"remove", i>> >>,
              escaped |-> <<"remove", i>>]
      ELSE IF d.fate = "listdir_raises"
        THEN [out |-> head, raised |-> << <<"listdir", i>> >>,
              escaped |-> <<"listdir", i>>]
      ELSE IF d.fate = "no_tif"
        THEN [out |-> head \o << Log("No .tif file found", i) >>,
              raised |-> <<>>, escaped |-> None]
      ELSE IF ~reg_script
        THEN [out |-> head \o << Log("Script not found", i), Log("FAILED", i) >>,
              raised |-> <<>>, escaped |-> None]
      ELSE IF d.fate = "popen_raises"
        THEN [out |-> head \o << Log("FAILED (Error)", i) >>,
              raised |-> << <<"popen", i>> >>, escaped |-> None]
      ELSE [out |-> head \o proc
                      \o << IF d.fate = "exit_zero"
                              THEN Log("Registration done", i)
                              ELSE Log("FAILED", i) >>
                      \o CombineLines(d, i),
            raised |-> CombineRaised(d, i), escaped |-> None]

\* RegistrationWorker(dirs, params, combine), about to run
RegNew(d, combine, script) ==
  /\ reg_dirs = d
  /\ reg_combine = combine
  /\ reg_script = script
  /\ reg_pc = "loop"
  /\ reg_i = 0
  /\ reg_out = <<>>
  /\ reg_exc = None
  /\ reg_raised = <<>>

\* Where run() goes once the outer handler has emitted error: finished is
\* skipped.
ExceptReturns == "done"

\* Where run() goes once the outer handler has emitted error: the finally
\* clause.
ExceptNext == "finally"

\* for i, reg_dir in enumerate(self.dirs): one iteration
RegIterate ==
  /\ reg_pc = "loop"
  /\ reg_i < Len(reg_dirs)
  /\ LET r == Iteration(reg_dirs[reg_i + 1], reg_i + 1, Len(reg_dirs))
     IN  /\ reg_out' = reg_out \o r.out
         /\ reg_raised' = reg_raised \o r.raised
         /\ reg_exc' = r.escaped
         /\ reg_pc' = IF r.escaped = None THEN "loop" ELSE "except"
         /\ reg_i' = reg_i + 1
  /\ UNCHANGED <<reg_dirs, reg_combine, reg_script>>
  /\ UNCHANGED beside_reg

\* The loop is over: "--- Batch Registration Finished ---"
RegBatchFinished ==
  /\ reg_pc = "loop"
  /\ reg_i = Len(reg_dirs)
  /\ reg_out' = Append(reg_out, <<"log", "Batch Registration Finished">>)
  /\ reg_pc' = "finally"
  /\ UNCHANGED <<reg_dirs, reg_combine, reg_script, reg_i, reg_exc, reg_raised>>
  /\ UNCHANGED beside_reg

\* except Exception as e: self.error.emit(str(e))
RegExcept ==
  /\ reg_pc = "except"
  /\ reg_out' = Append(reg_out, <<"error", reg_exc>>)
  /\ reg_pc' = ExceptNext
  /\ UNCHANGED <<reg_dirs, reg_combine, reg_script, reg_i, reg_exc, reg_raised>>
  /\ UNCHANGED beside_reg

\* finally: self.finished.emit()
RegFinally ==
  /\ reg_pc = "finally"
  /\ reg_out' = Append(reg_out, <<"finished">>)
  /\ reg_pc' = "done"
  /\ UNCHANGED <<reg_dirs, reg_combine, reg_script, reg_i, reg_exc, reg_raised>>
  /\ UNCHANGED beside_reg

\* ------------------------------------------------------------------------
\* BnCDialog
\* ------------------------------------------------------------------------

\* Settings are Python floats in the source.  Here they are whole numbers of
\* 1/Q: every handler at most halves a difference of two settings, so Q
\* keeps the arithmetic of a run exact.
Q == 2 ^ (MaxBncEvents + 1)

\* The ends of a slider and of the normalised data (setMinimum, setMaximum;
\* _normalize_to_255).
Full == 255

\* The values the user moves a slider to.
SliderValues == {0, 200, Full}

\* The images set_image_data is given: not constant, so that
\* _normalize_to_255 spreads them over 0..255; lo and hi are their 0.35 and
\* 99.65 percentiles.
Images == { [lo |-> 10, hi |-> 240] }

\* int(x) of a float x given in 1/Q
TruncInt(u) == IF u >= 0 THEN u \div Q ELSE -((-u) \div Q)

\* QSlider.setValue(int(x)): the value is kept inside the slider's range.
SliderAt(u) == Max(0, Min(Full, TruncInt(u)))

\* x / 2.0
Half(u) == u \div 2

\* max(lo, min(hi, x))
Clamp(lo, x, hi) == Max(lo, Min(hi, x))

\* _get_current_settings_key, as an index into bnc_settings
Key == IF bnc_channel = 0 THEN 1 ELSE 2

\* _get_current_data
CurrentData ==
  IF bnc_channel = 0 THEN bnc_data[1]
  ELSE IF bnc_channel = 1 /\ bnc_data[2] # None THEN bnc_data[2]
  ELSE None

\* The settings a handler may work on: data present and default_range > 0.
HasRange == CurrentData # None

\* _update_brightness_contrast_from_minmax on settings st of the current
\* channel: the settings it leaves.
FromMinMax(st) ==
  IF ~HasRange THEN st
  ELSE
    LET center == st.min + Half(st.max - st.min)
        brightness == Clamp(0, Full * Q - center, Full * Q)
        range == st.max - st.min
        contrast ==
          IF range > 0
            THEN Clamp(0,
                       IF Full * Q <= range
                         THEN (Full * Q * Full * Q) \div (2 * range)
                         ELSE Full * Q - Half(range),
                       Full * Q)
            ELSE Full * Q
    IN  [st EXCEPT !.brightness = brightness, !.contrast = contrast]

\* _update_sliders: the four sliders show st.
SlidersOf(st) ==
  [min |-> SliderAt(st.min), max |-> SliderAt(st.max),
   brightness |-> SliderAt(st.brightness), contrast |-> SliderAt(st.contrast)]

\* The dict _emit_settings_changed emits.
Payload(ch, st) ==
  [channel |-> ch, min |-> st.min, max |-> st.max,
   brightness |-> st.brightness, contrast |-> st.contrast]

\* The second definition of _queue_update, the one the class keeps: the
\* signals it emits.
QueueUpdate(update_type, ch, st) ==
  IF update_type = "settings" THEN << Payload(ch, st) >> ELSE <<>>

\* The settings of __init__ and of _initialize_settings
Defaults == [min |-> 0, max |-> Full * Q, brightness |-> 128 * Q,
             contrast |-> 128 * Q]

\* 'min' and 'max' as __init__ writes them: Python ints.
Ints == [min |-> TRUE, max |-> TRUE]

\* 'min' and 'max' once a float has been stored in both.
Floats == [min |-> FALSE, max |-> FALSE]

\* BnCDialog(parent)
BncInit ==
  /\ bnc_data = <<None, None>>
  /\ bnc_channel = 0
  /\ bnc_combo = 1
  /\ bnc_settings = <<Defaults, Defaults>>
  /\ bnc_isint = <<Ints, Ints>>
  /\ bnc_sliders = [min |-> 0, max |-> Full, brightness |-> 128, contrast |-> 128]
  /\ bnc_timer = FALSE
  /\ bnc_alive = TRUE
  /\ bnc_signals = <<>>
  /\ bnc_unsent = {}
  /\ bnc_events = 0
  /\ bnc_queue = <<>>
  /\ bnc_stop = FALSE
  /\ bnc_worker = "test"

\* A user event counts towards the run's bound; no event reaches a dialog
\* whose process has aborted or that has been closed.
BncCount ==
  /\ bnc_alive
  /\ ~bnc_stop
  /\ bnc_events < MaxBncEvents
  /\ bnc_events' = bnc_events + 1

\* A slot raised: PyQt reports the exception and aborts the process.  The
\* slider the user moved is all that has changed.
BncAbort(sliders) ==
  /\ bnc_alive' = FALSE
  /\ bnc_sliders' = sliders
  /\ bnc_signals' = <<>>
  /\ UNCHANGED <<bnc_data, bnc_channel, bnc_combo, bnc_settings, bnc_isint,
                 bnc_timer, bnc_unsent>>

\* A slider handler ends: settings st for the current channel, which of
\* them are still ints, the sliders, and self._update_timer.start(50).
BncSliderDone(st, ints, sliders) ==
  /\ bnc_settings' = [bnc_settings EXCEPT ![Key] = st]
  /\ bnc_isint' = [bnc_isint EXCEPT ![Key] = ints]
  /\ bnc_sliders' = sliders
  /\ bnc_timer' = TRUE
  /\ bnc_signals' = <<>>
  /\ bnc_unsent' = IF st # bnc_settings[Key]
                     THEN bnc_unsent \cup {bnc_channel} ELSE bnc_unsent
  /\ bnc_alive' = TRUE
  /\ UNCHANGED <<bnc_data, bnc_channel, bnc_combo>>

\* set_image_data(ch1_data, ch2_data): the combo is rebuilt (which selects
\* channel 0), the settings of the channels with data are initialised and
\* the display is updated.  A dialog is given its data once.
SetImageData(d1, d2) ==
  /\ bnc_alive
  /\ bnc_data = <<None, None>>
  /\ bnc_data' = <<d1, d2>>
  /\ bnc_channel' = 0
  /\ bnc_combo' = IF d2 # None THEN 2 ELSE 1
  /\ bnc_settings' = << Defaults, IF d2 # None THEN Defaults ELSE bnc_settings[2] >>
  /\ bnc_isint' = << Floats, IF d2 # None THEN Floats ELSE bnc_isint[2] >>
  /\ bnc_sliders' = SlidersOf(Defaults)
  /\ bnc_signals' = <<>>
  /\ UNCHANGED <<bnc_timer, bnc_alive, bnc_unsent, bnc_events>>
  /\ UNCHANGED <<bnc_thread, beside_bnc>>

\* _on_channel_changed(index): the user picks another item of the combo.
OnChannelChanged(index) ==
  /\ BncCount
  /\ index # bnc_channel
  /\ index < bnc_combo
  /\ bnc_channel' = index
  /\ bnc_sliders' = SlidersOf(bnc_settings[IF index = 0 THEN 1 ELSE 2])
  /\ bnc_signals' = <<>>
  /\ UNCHANGED <<bnc_data, bnc_combo, bnc_settings, bnc_isint, bnc_timer,
                 bnc_alive, bnc_unsent>>
  /\ UNCHANGED <<bnc_thread, beside_bnc>>

\* The brightness and contrast sliders after
\* _update_brightness_contrast_from_minmax has left settings st: it moves
\* them only when it does not return early.
ShowDerived(sliders, st) ==
  IF ~HasRange THEN sliders
  ELSE [sliders EXCEPT !.brightness = SliderAt(st.brightness),
                       !.contrast = SliderAt(st.contrast)]

\* _on_min_changed(value): the user moves the min slider to value.
OnMinChanged(value) ==
  LET st == bnc_settings[Key]
      moved == [bnc_sliders EXCEPT !.min = value]
      over == value * Q >= st.max
      \* value = max_val - 1
      v == IF over THEN st.max - Q ELSE value * Q
      new == FromMinMax([st EXCEPT !.min = v])
  IN  /\ BncCount
      /\ value # bnc_sliders.min
      /\ IF over /\ ~bnc_isint[Key].max
           \* self.min_slider.setValue(value) with a float
           THEN BncAbort(moved)
           ELSE BncSliderDone(new, [bnc_isint[Key] EXCEPT !.min = FALSE],
                              ShowDerived([moved EXCEPT !.min =
                                             IF over THEN SliderAt(v) ELSE value],
                                          new))
      /\ UNCHANGED <<bnc_thread, beside_bnc>>

\* _on_max_changed(value): the user moves the max slider to value.
OnMaxChanged(value) ==
  LET st == bnc_settings[Key]
      moved == [bnc_sliders EXCEPT !.max = value]
      under == value * Q <= st.min
      \* value = min_val + 1
      v == IF under THEN st.min + Q ELSE value * Q
      new == FromMinMax([st EXCEPT !.max = v])
  IN  /\ BncCount
      /\ value # bnc_sliders.max
      /\ IF under /\ ~bnc_isint[Key].min
           \* self.max_slider.setValue(value) with a float
           THEN BncAbort(moved)
           ELSE BncSliderDone(new, [bnc_isint[Key] EXCEPT !.max = FALSE],
                              ShowDerived([moved EXCEPT !.max =
                                             IF under THEN SliderAt(v) ELSE value],
                                          new))
      /\ UNCHANGED <<bnc_thread, beside_bnc>>

\* The window _on_brightness_changed computes: <<new_min, new_max>>.
BrightnessWindow(st, value) ==
  LET center == Full * Q - value * Q
      width == st.max - st.min
      min0 == Max(0, Min(center - Half(width), Full * Q - width))
      max0 == Min(Full * Q, Max(center + Half(width), width))
  IN  IF max0 - min0 # width
        THEN IF min0 = 0 THEN <<min0, min0 + width>>
             ELSE IF max0 = Full * Q THEN <<max0 - width, max0>>
             ELSE <<min0, max0>>
        ELSE <<min0, max0>>

\* _on_brightness_changed(value): the user moves the brightness slider.
OnBrightnessChanged(value) ==
  LET st == bnc_settings[Key]
      moved == [bnc_sliders EXCEPT !.brightness = value]
      w == BrightnessWindow(st, value)
      new == [st EXCEPT !.min = w[1], !.max = w[2], !.brightness = value * Q]
  IN  /\ BncCount
      /\ value # bnc_sliders.brightness
      /\ IF ~HasRange
           THEN /\ bnc_sliders' = moved
                /\ bnc_signals' = <<>>
                /\ UNCHANGED <<bnc_data, bnc_channel, bnc_combo, bnc_settings,
                               bnc_isint, bnc_timer, bnc_alive, bnc_unsent>>
           ELSE BncSliderDone(new, Floats,
                              [moved EXCEPT !.min = SliderAt(w[1]),
                                            !.max = SliderAt(w[2])])
      /\ UNCHANGED <<bnc_thread, beside_bnc>>

\* The window _on_contrast_changed computes for a slider value below the
\* slider's end: <<new_min, new_max>>.  half_range is (default_range / 2) /
\* slope, which is 127.5 * 127.5 / value up to the middle of the slider and
\* 255 - value above it.
ContrastWindow(st, value) ==
  LET center == st.min + Half(st.max - st.min)
      half_range == IF 2 * value <= Full
                      THEN (Full * Full * Q) \div (4 * Max(1, value))
                      ELSE (Full - value) * Q
      min0 == IF value > 0 THEN Clamp(0, center - half_range, Full * Q) ELSE 0
      max0 == IF value > 0 THEN Clamp(0, center + half_range, Full * Q)
              ELSE Full * Q
  IN  <<min0, IF max0 <= min0 THEN min0 + Q ELSE max0>>

\* _on_contrast_changed(value): the user moves the contrast slider.
OnContrastChanged(value) ==
  LET st == bnc_settings[Key]
      moved == [bnc_sliders EXCEPT !.contrast = value]
      w == ContrastWindow(st, value)
      new == [st EXCEPT !.min = w[1], !.max = w[2], !.contrast = value * Q]
  IN  /\ BncCount
      /\ value # bnc_sliders.contrast
      /\ IF ~HasRange
           THEN /\ bnc_sliders' = moved
                /\ bnc_signals' = <<>>
                /\ UNCHANGED <<bnc_data, bnc_channel, bnc_combo, bnc_settings,
                               bnc_isint, bnc_timer, bnc_alive, bnc_unsent>>
         ELSE IF value = Full
           \* slope = mid / (slider_range - contrast) divides by zero
           THEN BncAbort(moved)
           ELSE BncSliderDone(new, Floats,
                              [moved EXCEPT !.min = SliderAt(w[1]),
                                            !.max = SliderAt(w[2])])
      /\ UNCHANGED <<bnc_thread, beside_bnc>>

\* A button handler ends: settings st for the current channel, shown and
\* announced by _queue_update('settings').
BncButtonDone(st) ==
  /\ bnc_settings' = [bnc_settings EXCEPT ![Key] = st]
  /\ bnc_isint' = [bnc_isint EXCEPT ![Key] = Floats]
  /\ bnc_sliders' = SlidersOf(st)
  /\ bnc_signals' = QueueUpdate("settings", bnc_channel, st)
  /\ bnc_unsent' = bnc_unsent \ {bnc_channel}
  /\ UNCHANGED <<bnc_data, bnc_channel, bnc_combo, bnc_timer, bnc_alive>>

\* A button handler returns at once: there is no data.
BncNoData ==
  /\ bnc_signals' = <<>>
  /\ UNCHANGED <<bnc_data, bnc_channel, bnc_combo, bnc_settings, bnc_isint,
                 bnc_sliders, bnc_timer, bnc_alive, bnc_unsent>>

\* _on_reset()
OnReset ==
  /\ BncCount
  /\ IF CurrentData = None THEN BncNoData ELSE BncButtonDone(Defaults)
  /\ UNCHANGED <<bnc_thread, beside_bnc>>

\* _on_auto()
OnAuto ==
  /\ BncCount
  /\ IF CurrentData = None THEN BncNoData
     ELSE BncButtonDone(FromMinMax([bnc_settings[Key] EXCEPT
                                      !.min = CurrentData.lo * Q,
                                      !.max = CurrentData.hi * Q]))
  /\ UNCHANGED <<bnc_thread, beside_bnc>>

\* _update_timer times out, 50 ms after the last start: timeout is connected
\* to _queue_update, which it calls without an argument.
TimerFires ==
  /\ bnc_alive
  /\ bnc_timer
  /\ bnc_timer' = FALSE
  /\ LET sent == QueueUpdate("histogram", bnc_channel, bnc_settings[Key])
     IN  /\ bnc_signals' = sent
         /\ bnc_unsent' = IF sent = <<>> THEN bnc_unsent
                          ELSE bnc_unsent \ {bnc_channel}
  /\ bnc_sliders' = SlidersOf(bnc_settings[Key])
  /\ UNCHANGED <<bnc_data, bnc_channel, bnc_combo, bnc_settings, bnc_isint,
                 bnc_alive, bnc_events>>
  /\ UNCHANGED <<bnc_thread, beside_bnc>>

\* What the processing thread and closeEvent leave alone of the dialog.
bnc_gui == <<bnc_data, bnc_channel, bnc_combo, bnc_settings, bnc_isint,
             bnc_sliders, bnc_timer, bnc_alive, bnc_events>>

\* _process_updates, the test of its while loop: the thread leaves the loop
\* once the stop flag is set.
WorkerTest ==
  /\ bnc_alive
  /\ bnc_worker = "test"
  /\ bnc_worker' = IF bnc_stop THEN "exited" ELSE "get"
  /\ bnc_signals' = <<>>
  /\ UNCHANGED <<bnc_queue, bnc_stop, bnc_unsent, bnc_gui>>
  /\ UNCHANGED beside_bnc

\* _process_updates, one pass of the loop body: get(timeout=0.1) raises
\* queue.Empty on an empty queue; otherwise the oldest request is taken and
\* 'settings' is announced by _emit_settings_changed from this thread.
WorkerGet ==
  /\ bnc_alive
  /\ bnc_worker = "get"
  /\ bnc_worker' = "test"
  /\ IF bnc_queue = <<>>
       THEN /\ bnc_signals' = <<>>
            /\ UNCHANGED <<bnc_queue, bnc_unsent>>
       ELSE /\ bnc_queue' = Tail(bnc_queue)
            /\ bnc_signals' = IF Head(bnc_queue) = "settings"
                                THEN << Payload(bnc_channel, bnc_settings[Key]) >>
                                ELSE <<>>
            /\ bnc_unsent' = IF Head(bnc_queue) = "settings"
                               THEN bnc_unsent \ {bnc_channel} ELSE bnc_unsent
  /\ UNCHANGED <<bnc_stop, bnc_gui>>
  /\ UNCHANGED beside_bnc

\* closeEvent(event): the stop flag is set and the thread is joined for at
\* most a second; the thread may or may not have left its loop when the
\* join returns.
CloseEvent ==
  /\ bnc_alive
  /\ ~bnc_stop
  /\ bnc_stop' = TRUE
  /\ bnc_signals' = <<>>
  /\ UNCHANGED <<bnc_queue, bnc_worker, bnc_unsent, bnc_gui>>
  /\ UNCHANGED beside_bnc

\* ------------------------------------------------------------------------
\* AnalysisWidget: the z-projection buttons
\* ------------------------------------------------------------------------

Modes == {"std", "max", "mean"}

AllOff == [m \in Modes |-> FALSE]

\* The z-projection update_tif_frame renders: the first flag that is set, in
\* the order of its elif chain, on a stack of frames; "frame" otherwise.
Projection(flags, ndim) ==
  IF ndim = 0 THEN "none"
  ELSE IF ndim < 3 THEN "frame"
  ELSE IF flags["std"] THEN "std"
  ELSE IF flags["max"] THEN "max"
  ELSE IF flags["mean"] THEN "mean"
  ELSE "frame"

\* An alternative to ToggledFlags: only the flag of zmode is written.
ToggledFlagsOwnOnly(flags, zmode, checked) ==
  [flags EXCEPT ![zmode] = checked]

\* The flags _on_zproj_toggled(zmode, checked) leaves before it refreshes
\* the view: the flags of the other modes are cleared, the flag of zmode is
\* bool(checked), and a flag that is set clears the two others (std, then
\* max, then mean).
ToggledFlags(flags, zmode, checked) ==
  LET f1 == [m \in Modes |-> IF m = zmode THEN checked ELSE FALSE]
      f2 == IF f1["std"] THEN [f1 EXCEPT !["max"] = FALSE, !["mean"] = FALSE]
            ELSE f1
      f3 == IF f2["max"] THEN [f2 EXCEPT !["std"] = FALSE, !["mean"] = FALSE]
            ELSE f2
  IN  IF f3["mean"] THEN [f3 EXCEPT !["std"] = FALSE, !["max"] = FALSE]
      ELSE f3

RECURSIVE ZprojToggled(_, _, _)
RECURSIVE ZprojUncheck(_, _)

\* update_tif_frame on z = [flags, buttons, shown, ndim]: it returns at once
\* without an image; in a projection it unchecks the two other buttons and
\* clears their flags.
ZprojUpdate(z) ==
  LET p == Projection(z.flags, z.ndim)
  IN  IF p = "none" THEN z
      ELSE IF p = "frame" THEN [z EXCEPT !.shown = "frame"]
      ELSE
        LET o == IF p = "std" THEN <<"mean", "max">>
                 ELSE IF p = "max" THEN <<"std", "mean">>
                 ELSE <<"std", "max">>
            z2 == ZprojUncheck(ZprojUncheck(z, o[1]), o[2])
        IN  [z2 EXCEPT !.flags = [m \in Modes |-> m = p /\ z2.flags[m]],
                       !.shown = p]

\* button.setChecked(False) with signals not blocked: a checked button
\* changes state and its toggled signal calls _on_zproj_toggled(m, False).
ZprojUncheck(z, m) ==
  IF z.buttons[m]
    THEN ZprojToggled([z EXCEPT !.buttons[m] = FALSE], m, FALSE)
    ELSE z

\* _on_zproj_toggled(zmode, checked) on z: the other buttons are unchecked
\* with their signals blocked, the flags are written and the view is
\* refreshed.
ZprojToggled(z, zmode, checked) ==
  ZprojUpdate([z EXCEPT !.flags = ToggledFlags(z.flags, zmode, checked),
                        !.buttons = [m \in Modes |-> m = zmode /\ z.buttons[m]]])

\* The flags, the buttons, the view and the image as one record.
ZprojNow == [flags |-> zproj_flags, buttons |-> zproj_buttons,
             shown |-> zproj_shown, ndim |-> zproj_ndim]

\* The record z becomes the state.
ZprojDone(z) ==
  /\ zproj_flags' = z.flags
  /\ zproj_buttons' = z.buttons
  /\ zproj_shown' = z.shown
  /\ zproj_ndim' = z.ndim

\* AnalysisWidget.__init__
ZprojInit ==
  /\ zproj_flags = AllOff
  /\ zproj_buttons = AllOff
  /\ zproj_ndim = 0
  /\ zproj_shown = "none"
  /\ zproj_call = [op |-> "init", mode |-> "none", checked |-> FALSE]
  /\ zproj_events = 0

ZprojCount ==
  /\ zproj_events < MaxZprojEvents
  /\ zproj_events' = zproj_events + 1

\* The toggled signal of the button of mode: the button is in state checked
\* and _on_zproj_toggled(zmode, checked) runs.
OnZprojToggled(zmode, checked) ==
  /\ ZprojCount
  /\ zproj_call' = [op |-> "toggled", mode |-> zmode, checked |-> checked]
  /\ ZprojDone(ZprojToggled([ZprojNow EXCEPT !.buttons[zmode] = checked],
                            zmode, checked))
  /\ UNCHANGED beside_zproj

\* display_reg_tif_image loads an image of ndim dimensions and renders it.
ZprojDisplayImage(ndim) ==
  /\ ZprojCount
  /\ zproj_call' = [op |-> "display", mode |-> "none", checked |-> FALSE]
  /\ ZprojDone(ZprojUpdate([ZprojNow EXCEPT !.ndim = ndim]))
  /\ UNCHANGED beside_zproj

\* The frame slider moves: update_tif_frame.
ZprojSlider ==
  /\ ZprojCount
  /\ zproj_ndim # 0
  /\ zproj_call' = [op |-> "slider", mode |-> "none", checked |-> FALSE]
  /\ ZprojDone(ZprojUpdate(ZprojNow))
  /\ UNCHANGED beside_zproj

\* ------------------------------------------------------------------------
\* AnalysisWidget: keys and saved ROIs
\* ------------------------------------------------------------------------

\* AnalysisWidget.__init__: no ROI is edited and none is saved.
KeysInit ==
  /\ editing_roi_index = None
  /\ saved_rois = <<>>

\* _editing_roi_index names a saved ROI.
Editing ==
  /\ editing_roi_index # None
  /\ editing_roi_index[1] < Len(saved_rois)

\* keyPressEvent, Key_Escape: _editing_roi_index is cleared and, the tool
\* having clear_selection, that is called; _clear_roi_and_trace is the
\* fallback of the other branch and of a raising clear_selection.
KeyEscape ==
  /\ Count
  /\ editing_roi_index' = None
  /\ start_pos' = None
  /\ current_pos' = None
  /\ bbox' = None
  /\ dragging' = FALSE
  /\ roi_event' = Call("escape", "none", TRUE)
  /\ roi_signals' = <<>>
  /\ translate_size' = None
  /\ UNCHANGED <<draw_rect, img_size, base_pixmap, mode, translate_anchor,
                 bbox_origin>>
  /\ UNCHANGED <<current_tif, current_tif_chan2, last_roi_xyxy>>
  /\ NoTrace
  /\ UNCHANGED saved_rois
  /\ UNCHANGED beside_keys

\* keyPressEvent, Key_R: _on_add_roi_clicked saves window._last_roi_xyxy,
\* over the ROI that is edited or as a new one.
KeyR ==
  /\ Count
  /\ roi_event' = Call("add_roi", "none", last_roi_xyxy # None)
  /\ roi_signals' = <<>>
  /\ saved_rois' =
       IF last_roi_xyxy = None THEN saved_rois
       ELSE IF Editing
         THEN [saved_rois EXCEPT ![editing_roi_index[1] + 1] = last_roi_xyxy]
         ELSE Append(saved_rois, last_roi_xyxy)
  /\ editing_roi_index' =
       IF last_roi_xyxy # None /\ Editing THEN None ELSE editing_roi_index
  /\ UNCHANGED <<draw_rect, img_size, base_pixmap, start_pos, current_pos,
                 bbox, dragging, mode, translate_anchor, bbox_origin,
                 translate_size>>
  /\ UNCHANGED <<current_tif, current_tif_chan2, last_roi_xyxy>>
  /\ NoTrace
  /\ UNCHANGED beside_keys

\* _on_saved_roi_selected(current): the user selects row of the ROI list.
\* The ROI becomes the one edited and window._last_roi_xyxy; the call of
\* show_bbox_image_coords with two arguments raises TypeError, which the
\* handler swallows, so the tool keeps its bbox.
OnSavedRoiSelected(row) ==
  /\ Count
  /\ row < Len(saved_rois)
  /\ editing_roi_index' = <<row>>
  /\ last_roi_xyxy' = saved_rois[row + 1]
  /\ roi_event' = Call("saved_roi_selected", "none", TRUE)
  /\ roi_signals' = <<>>
  /\ UNCHANGED <<draw_rect, img_size, base_pixmap, start_pos, current_pos,
                 bbox, dragging, mode, translate_anchor, bbox_origin,
                 translate_size>>
  /\ UNCHANGED <<current_tif, current_tif_chan2>>
  /\ NoTrace
  /\ UNCHANGED saved_rois
  /\ UNCHANGED beside_keys

\* ------------------------------------------------------------------------
\* ImageViewWidget.load_experiment_data
\* ------------------------------------------------------------------------

\* The arrays a file can hold: a single 2-D frame or a 3-D stack.
Arrays == { [ndim |-> 2, shape0 |-> 4], [ndim |-> 3, shape0 |-> 3],
            [ndim |-> 3, shape0 |-> 2] }

\* Python's None in a field that otherwise holds a string.
NoStr == "None"

\* Reading a file raises an exception instead of giving an array.
Raises == [ndim |-> 0, shape0 |-> 0]

\* What reading a file gives.
Reads == Arrays \cup {Raises}

\* What the metadata files hold: "absent", "ok" or "bad" (unreadable).
FileStates == {"absent", "ok", "bad"}

\* A call: use_registered, which of Ch1-reg.tif and ImageData_Ch0 exist,
\* what reading the first channel of the chosen kind gives, whether its
\* second channel exists and what reading that gives, the two metadata
\* files and whether scripts/meta_reader.py writes the pickle.
LoadInputs ==
  [ use_registered : BOOLEAN, has_registered_tif : BOOLEAN,
    has_raw_numpy : BOOLEAN, ch1 : Reads, chan2_file : BOOLEAN,
    ch2 : {[ndim |-> 3, shape0 |-> 2], Raises},
    pkl : FileStates, json : {"absent", "ok"}, reader : BOOLEAN ]

\* The branch load_experiment_data takes.
Loader(in) ==
  IF in.use_registered /\ in.has_registered_tif THEN "registered"
  ELSE IF ~in.use_registered /\ in.has_raw_numpy THEN "raw"
  ELSE IF in.use_registered /\ ~in.has_registered_tif /\ in.has_raw_numpy
    THEN "raw"
  ELSE IF ~in.use_registered /\ ~in.has_raw_numpy /\ in.has_registered_tif
    THEN "registered"
  ELSE "none"

\* _load_registered_tiffs and _load_raw_numpy on result: the first channel
\* is stored, then the second if its file exists; an exception leaves what
\* was stored and is raised again with the loader's prefix.
LoadChannels(in, result, prefix) ==
  IF in.ch1 = Raises
    THEN [result |-> result, raised |-> prefix]
  ELSE IF ~in.chan2_file
    THEN [result |-> [result EXCEPT !.tif = in.ch1], raised |-> NoStr]
  ELSE IF in.ch2 = Raises
    THEN [result |-> [result EXCEPT !.tif = in.ch1], raised |-> prefix]
  ELSE [result |-> [result EXCEPT !.tif = in.ch1, !.tif_chan2 = in.ch2],
        raised |-> NoStr]

\* _load_experiment_metadata: the pickle, else the JSON, else what
\* meta_reader.py leaves; None when all fail.  It raises nothing.
LoadExperimentMetadata(in) ==
  IF in.pkl = "ok" THEN "pkl"
  ELSE IF in.json = "ok" THEN "json"
  ELSE IF in.reader /\ in.pkl = "absent" THEN "pkl"
  ELSE NoStr

\* result['nframes'] for a loaded first channel
NFrames(tif, tif_chan2) ==
  LET n == IF tif.ndim = 3 THEN tif.shape0 ELSE 1
  IN  IF tif_chan2 # None /\ tif_chan2.ndim = 3
        THEN Min(n, tif_chan2.shape0) ELSE n

\* The dict load_experiment_data starts from.
EmptyResult ==
  [tif |-> None, tif_chan2 |-> None, metadata |-> NoStr, nframes |-> 0,
   has_registered_tif |-> FALSE, has_raw_numpy |-> FALSE, success |-> FALSE,
   error |-> NoStr]

\* load_experiment_data(directory_path, use_registered): the dict returned.
LoadExperimentData(in) ==
  LET r0 == [EmptyResult EXCEPT !.has_registered_tif = in.has_registered_tif,
                                !.has_raw_numpy = in.has_raw_numpy]
      kind == Loader(in)
      l == LoadChannels(in, r0,
                        IF kind = "registered"
                          THEN "Failed to load registered TIFF files"
                          ELSE "Failed to load raw numpy files")
      r1 == [l.result EXCEPT !.metadata = LoadExperimentMetadata(in)]
  IN  IF kind = "none"
        THEN [r0 EXCEPT !.error = "No suitable image files found in directory"]
      ELSE IF l.raised # NoStr
        \* except Exception as e: result['error'] = str(e)
        THEN [l.result EXCEPT !.error = l.raised]
      ELSE IF r1.tif # None
        THEN [r1 EXCEPT !.nframes = NFrames(r1.tif, r1.tif_chan2),
                        !.success = TRUE]
      ELSE [r1 EXCEPT !.error = "Failed to load image data"]

\* An ImageViewWidget about to be asked for the directory in.
LoadInit(in) ==
  /\ load_in = in
  /\ load_result = None
  /\ load_ran = <<>>

\* The call of load_experiment_data.
LoadCall ==
  /\ load_result = None
  /\ load_result' = LoadExperimentData(load_in)
  /\ load_ran' = IF Loader(load_in) = "none" THEN <<>> ELSE << Loader(load_in) >>
  /\ UNCHANGED load_in
  /\ UNCHANGED beside_load

\* ------------------------------------------------------------------------
\* SignalProcessor.extract_signals
\* ------------------------------------------------------------------------

\* Fluorescence values are whole numbers here and neuropil_coeff is a number
\* of tenths, so every quantity below is an exact rational: a corrected
\* signal is kept in tenths, a baseline in 1/50, a ratio as the pair
\* <<num, den>> of its numerator in 1/50 and its denominator in 1/(10 *
\* PerEps).

\* neuropil_coeff's default, 0.7, in tenths
DefaultCoeff == 7

\* 1 / eps
PerEps == 1000000

\* The q of np.percentile(f_green_corr, q)
BaselinePct == 20

\* The traces of one ROI: lengths 1, 3 and 6, so that the percentile falls
\* on the minimum, between the two smallest values and on the second
\* smallest value.
Traces ==
  { <<4>>, <<9>>, <<3, 1, 2>>, <<5, 5, 5>>, <<6, 1, 4, 2, 5, 3>>,
    <<2, 7, 2, 9, 1, 1>> }

\* F, Fneu or F_chan2 of two ROIs over the same frames
Rows == { p \in Traces \X Traces : Len(p[1]) = Len(p[2]) }

\* rois_to_process when it is not None: an iterable of indices into stat
RoiLists == { <<>>, <<0>>, <<1>>, <<0, 1>>, <<1, 0>>, <<1, 1>> }

\* The calls: rois_none says that rois_to_process is None (the list is then
\* empty here); remove_breathing keeps its default, False.
SpInputs ==
  { in \in [ F : Rows, Fneu : Rows, F_chan2 : Rows,
               rois_to_process : RoiLists, rois_none : BOOLEAN,
               neuropil_coeff : {0, DefaultCoeff},
               raw : BOOLEAN, Fo : BOOLEAN ] :
      /\ in.Fneu \in { <<in.F[2], in.F[1]>>, <<in.F[1], in.F[1]>> }
      /\ in.F_chan2 \in { in.F, <<in.F[2], in.F[2]>> }
      /\ in.rois_none => in.rois_to_process = <<>> }

\* An alternative to NeuropilCorrected: the raw trace, in tenths.
Uncorrected(f, fneu, coeff) == [t \in 1..Len(f) |-> 10 * f[t]]

\* F[roi_idx] - neuropil_coeff * Fneu[roi_idx], in tenths
NeuropilCorrected(f, fneu, coeff) ==
  [t \in 1..Len(f) |-> 10 * f[t] - coeff * fneu[t]]

RECURSIVE Insert(_, _)
\* x put into the sorted sequence s
Insert(s, x) ==
  IF s = <<>> THEN <<x>>
  ELSE IF x <= Head(s) THEN <<x>> \o s
  ELSE <<Head(s)>> \o Insert(Tail(s), x)

RECURSIVE Sorted(_)
\* np.sort
Sorted(s) == IF s = <<>> THEN <<>> ELSE Insert(Sorted(Tail(s)), Head(s))

\* np.percentile(g, 20) with its default linear interpolation, times 5: the
\* sorted values at index 0.2 * (n - 1), interpolated between neighbours.
Percentile(g) ==
  LET srt == Sorted(g)
      pos == BaselinePct * (Len(g) - 1)
      k == pos \div 100
      r == (pos % 100) \div BaselinePct
      \* pos / 100 = k + r / 5
  IN  IF r = 0 THEN 5 * srt[k + 1]
      ELSE 5 * srt[k + 1] + r * (srt[k + 2] - srt[k + 1])

\* (f_green_corr - f0_green) / (f_red_corr + eps), one <<num, den>> per frame
FinalSignal(green, red) ==
  LET f0 == Percentile(green)
  IN  [t \in 1..Len(green) |->
         << 5 * green[t] - f0, red[t] * PerEps + 10 >>]

\* The indices the loop goes through: range(len(stat)) for None
RoisToProcess(in) ==
  IF in.rois_none THEN <<0, 1>> ELSE in.rois_to_process

\* The keys the loop leaves in each dict
Keys(in) == { RoisToProcess(in)[j] : j \in 1..Len(RoisToProcess(in)) }

\* extract_signals(stat, F, Fneu, F_chan2, rois_to_process, ...): what it
\* returns, a dict or a pair of dicts.
ExtractSignals(in) ==
  LET green == [i \in Keys(in) |->
                  NeuropilCorrected(in.F[i + 1], in.Fneu[i + 1], in.neuropil_coeff)]
      red == [i \in Keys(in) |->
                NeuropilCorrected(in.F_chan2[i + 1], in.Fneu[i + 1], in.neuropil_coeff)]
      processed == [i \in Keys(in) |-> FinalSignal(green[i], red[i])]
      \* processed_signals[roi_idx][:int(0.2 * len(...))]
      fo == [i \in Keys(in) |->
               SubSeq(processed[i], 1, (2 * Len(processed[i])) \div 10)]
  IN  IF ~in.raw
        THEN IF in.Fo THEN <<processed, fo>> ELSE processed
        ELSE <<green, red>>

\* A call about to be made with arguments in.
SpInit(in) ==
  /\ sp_in = in
  /\ sp_out = None

\* The call of extract_signals.
SpCall ==
  /\ sp_out = None
  /\ sp_out' = << ExtractSignals(sp_in) >>
  /\ UNCHANGED sp_in
  /\ UNCHANGED beside_sp

\* ------------------------------------------------------------------------
\* Specifications
\* ------------------------------------------------------------------------

\* The directory of the specifications that load nothing: empty.
LoadDefault ==
  [use_registered |-> TRUE, has_registered_tif |-> FALSE,
   has_raw_numpy |-> FALSE, ch1 |-> Raises, chan2_file |-> FALSE,
   ch2 |-> Raises, pkl |-> "absent", json |-> "absent", reader |-> FALSE]

\* The call of the specifications that extract no signals.
SpDefault ==
  [F |-> << <<4>>, <<4>> >>, Fneu |-> << <<4>>, <<4>> >>,
   F_chan2 |-> << <<4>>, <<4>> >>, rois_to_process |-> <<>>,
   rois_none |-> FALSE,
   neuropil_coeff |-> DefaultCoeff, raw |-> FALSE, Fo |-> FALSE]

Init ==
  RoiInit /\ TraceInit /\ DirNew(<<>>) /\ RegNew(<<>>, FALSE, TRUE) /\ BncInit /\ ZprojInit /\ KeysInit
  /\ LoadInit(LoadDefault) /\ SpInit(SpDefault)

Next ==
  \/ \E g \in Geoms : UpdateTifFrame(g)
  \/ Clear
  \/ ClearSelection
  \/ \E xyxy \in ImageRects : ShowBboxImageCoords(xyxy)
  \/ \E b \in Buttons, p \in MousePts : MousePress(b, p)
  \/ \E p \in MousePts : MouseMove(p)
  \/ \E b \in Buttons, p \in MousePts : MouseRelease(b, p)
  \/ UpdateTraceFromRoi

Spec == Init /\ [][Next]_vars

\* A DirManager built on any list and called in any order.
InitDir ==
  /\ \E d \in PathLists : DirNew(d)
  /\ RoiInit /\ TraceInit /\ RegNew(<<>>, FALSE, TRUE) /\ BncInit /\ ZprojInit /\ KeysInit
  /\ LoadInit(LoadDefault) /\ SpInit(SpDefault)

NextDir ==
  \/ \E paths \in PathLists : DirAdd(paths)
  \/ \E paths \in PathLists : DirRemove(paths)
  \/ DirClear

SpecDir == InitDir /\ [][NextDir]_vars

\* A RegistrationWorker on any list of directories, run once.
InitReg ==
  /\ \E d \in SeqsUpTo(DirCases, MaxDirs), combine \in BOOLEAN, script \in BOOLEAN :
       RegNew(d, combine, script)
  /\ RoiInit /\ TraceInit /\ DirNew(<<>>) /\ BncInit /\ ZprojInit /\ KeysInit
  /\ LoadInit(LoadDefault) /\ SpInit(SpDefault)

NextReg ==
  \/ RegIterate
  \/ RegBatchFinished
  \/ RegExcept
  \/ RegFinally

SpecReg == InitReg /\ [][NextReg]_vars

\* A BnCDialog, given its image data at some point, and its user.
InitBnc ==
  RoiInit /\ TraceInit /\ DirNew(<<>>) /\ RegNew(<<>>, FALSE, TRUE) /\ BncInit /\ ZprojInit /\ KeysInit
  /\ LoadInit(LoadDefault) /\ SpInit(SpDefault)

NextBnc ==
  \/ \E d1 \in Images, d2 \in Images \cup {None} : SetImageData(d1, d2)
  \/ \E index \in {0, 1} : OnChannelChanged(index)
  \/ \E value \in SliderValues : OnMinChanged(value)
  \/ \E value \in SliderValues : OnMaxChanged(value)
  \/ \E value \in SliderValues : OnBrightnessChanged(value)
  \/ \E value \in SliderValues : OnContrastChanged(value)
  \/ OnReset
  \/ OnAuto
  \/ TimerFires
  \/ WorkerTest
  \/ WorkerGet
  \/ CloseEvent

SpecBnc == InitBnc /\ [][NextBnc]_vars

\* The z-projection buttons, toggled in any order around the loading of an
\* image.
InitZproj ==
  /\ ZprojInit
  /\ RoiInit /\ TraceInit /\ DirNew(<<>>) /\ RegNew(<<>>, FALSE, TRUE) /\ BncInit
  /\ KeysInit
  /\ LoadInit(LoadDefault) /\ SpInit(SpDefault)

NextZproj ==
  \/ \E zmode \in Modes, checked \in BOOLEAN : OnZprojToggled(zmode, checked)
  \/ \E ndim \in {2, 3} : ZprojDisplayImage(ndim)
  \/ ZprojSlider

SpecZproj == InitZproj /\ [][NextZproj]_vars

\* The analysis tab: the user draws inside the image with the left button,
\* presses Escape and R, and selects saved ROIs.
KeyPts == { p \in MousePts : draw_rect # None /\ InDrawRect(draw_rect, p) }

InitKeys ==
  /\ KeysInit
  /\ RoiInit /\ TraceInit /\ DirNew(<<>>) /\ RegNew(<<>>, FALSE, TRUE) /\ BncInit
  /\ ZprojInit
  /\ LoadInit(LoadDefault) /\ SpInit(SpDefault)

NextKeys ==
  \/ \E g \in Geoms : UpdateTifFrame(g)
  \/ \E p \in KeyPts : MousePress("left", p)
  \/ \E p \in KeyPts : MouseMove(p)
  \/ \E p \in KeyPts : MouseRelease("left", p)
  \/ KeyEscape
  \/ KeyR
  \/ \E row \in 0..1 : OnSavedRoiSelected(row)

SpecKeys == InitKeys /\ [][NextKeys]_vars

\* load_experiment_data called once on any directory.
InitLoad ==
  /\ \E in \in LoadInputs : LoadInit(in)
  /\ RoiInit /\ TraceInit /\ DirNew(<<>>) /\ RegNew(<<>>, FALSE, TRUE) /\ BncInit
  /\ ZprojInit /\ KeysInit /\ SpInit(SpDefault)

NextLoad == LoadCall

SpecLoad == InitLoad /\ [][NextLoad]_vars

\* extract_signals called once with any of the arguments.
InitSp ==
  /\ \E in \in SpInputs : SpInit(in)
  /\ RoiInit /\ TraceInit /\ DirNew(<<>>) /\ RegNew(<<>>, FALSE, TRUE) /\ BncInit
  /\ ZprojInit /\ KeysInit /\ LoadInit(LoadDefault)

NextSp == SpCall

SpecSp == InitSp /\ [][NextSp]_vars


\* ------------------------------------------------------------------------
\* Claims about the ROI tool and the trace
\* ------------------------------------------------------------------------

\* The image rectangles the last call emitted or returned.
Reported ==
  { roi_signals[i][2] : i \in 1..Len(roi_signals) }
    \cup (IF mask_result = None THEN {}
          ELSE { <<mask_result[1], mask_result[2], mask_result[3], mask_result[4]>> })

\* X is the integer nearest to n/d (d > 0), the even one of the two on a tie.
IsRounded(X, n, d) ==
  /\ 2 * Abs(X * d - n) <= d
  /\ (2 * Abs(X * d - n) = d) => (X % 2 = 0)

\* n/d lies exactly halfway between two integers.
IsTie(n, d) == 2 * (n % d) = d

\* The edges of the bbox intersected with the draw rect, as offsets from the
\* rect's left and top edges (units).
InterOffsets ==
  LET dl == draw_rect[1] * U
      dt == draw_rect[2] * U
      dr == (draw_rect[1] + draw_rect[3]) * U
      db == (draw_rect[2] + draw_rect[4]) * U
  IN  << Max(bbox[1], dl) - dl, Max(bbox[2], dt) - dt,
         Min(bbox[1] + bbox[3], dr) - dl, Min(bbox[2] + bbox[4], db) - dt >>

\* C1: every rectangle _current_roi_image_coords returns (emitted by a mouse
\* handler or handed to get_ellipse_mask) is the bbox, intersected with the
\* draw rect, scaled linearly to image pixels: X = round((x - dl) / pw * img_w)
\* and Y = round((y - dt) / ph * img_h), within [0, img_w] and [0, img_h]; when
\* the pixmap is shown unscaled and the bbox has whole-pixel corners inside the
\* draw rect, the result is the bbox's corners shifted by (-dl, -dt).
C1_LinearScale ==
  \A r \in Reported :
    /\ bbox # None /\ draw_rect # None /\ img_size # None
    /\ LET o == InterOffsets
           dw == U * draw_rect[3]
           dh == U * draw_rect[4]
       IN  /\ IsRounded(r[1], o[1] * img_size[1], dw)
           /\ IsRounded(r[3], o[3] * img_size[1], dw)
           /\ IsRounded(r[2], o[2] * img_size[2], dh)
           /\ IsRounded(r[4], o[4] * img_size[2], dh)
           /\ 0 <= r[1] /\ r[1] <= img_size[1] /\ 0 <= r[3] /\ r[3] <= img_size[1]
           /\ 0 <= r[2] /\ r[2] <= img_size[2] /\ 0 <= r[4] /\ r[4] <= img_size[2]
           /\ ( /\ draw_rect[3] = img_size[1] /\ draw_rect[4] = img_size[2]
                /\ \A i \in 1..4 : bbox[i] % U = 0
                /\ bbox[1] >= draw_rect[1] * U /\ bbox[2] >= draw_rect[2] * U
                /\ bbox[1] + bbox[3] <= (draw_rect[1] + draw_rect[3]) * U
                /\ bbox[2] + bbox[4] <= (draw_rect[2] + draw_rect[4]) * U )
              => r = << bbox[1] \div U - draw_rect[1],
                        bbox[2] \div U - draw_rect[2],
                        (bbox[1] + bbox[3]) \div U - draw_rect[1],
                        (bbox[2] + bbox[4]) \div U - draw_rect[2] >>

\* C1 witness: a mouse move emitted a rectangle of a scaled view whose right
\* edge fell exactly between two image pixels.
C1_Witness ==
  /\ roi_signals # <<>>
  /\ draw_rect[3] # img_size[1]
  /\ IsTie(InterOffsets[3] * img_size[1], U * draw_rect[3])


\* C2: whenever get_ellipse_mask returns (X0, Y0, X1, Y1, mask), the mask has
\* Y1-Y0 rows and X1-X0 columns, and mask[r][c] is True exactly when the pixel
\* (X0+c, Y0+r) lies in the ellipse inscribed in the box:
\* ((x-cx)/rx)^2 + ((y-cy)/ry)^2 <= 1 with cx = (X0+X1)/2, rx = (X1-X0)/2,
\* which is (2x-X0-X1)^2 (Y1-Y0)^2 + (2y-Y0-Y1)^2 (X1-X0)^2
\*            <= (X1-X0)^2 (Y1-Y0)^2.
C2_MaskIsEllipse ==
  mask_result # None =>
    LET X0 == mask_result[1]
        Y0 == mask_result[2]
        X1 == mask_result[3]
        Y1 == mask_result[4]
        mask == mask_result[5]
        w == X1 - X0
        h == Y1 - Y0
    IN  /\ Len(mask) = h
        /\ \A r \in 0..(h - 1) :
             /\ Len(mask[r + 1]) = w
             /\ \A c \in 0..(w - 1) :
                  mask[r + 1][c + 1] <=>
                    ( (2 * (X0 + c) - X0 - X1) * (2 * (X0 + c) - X0 - X1) * h * h
                      + (2 * (Y0 + r) - Y0 - Y1) * (2 * (Y0 + r) - Y0 - Y1) * w * w
                        <= w * w * h * h )

\* C2 witness: a mask wider than it is high, with pixels inside and pixels
\* outside the ellipse.
C2_Witness ==
  /\ mask_result # None
  /\ mask_result[3] - mask_result[1] > mask_result[4] - mask_result[2]
  /\ mask_result[4] - mask_result[2] >= 2
  /\ \E r, q \in 1..Len(mask_result[5]) :
       \E c, d \in 1..Len(mask_result[5][r]) :
         mask_result[5][r][c] /\ ~mask_result[5][q][d]

\* The positions <<r, c>> (from 0) at which a mask is True.
TruePositions(mask) ==
  { rc \in (0..(Len(mask) - 1)) \X (0..(Len(mask[1]) - 1)) :
      mask[rc[1] + 1][rc[2] + 1] }

RECURSIVE SumAt(_, _, _, _)
\* The sum of frame[Y0 + r][X0 + c] over the positions <<r, c>> of S.
SumAt(frame, X0, Y0, S) ==
  IF S = {} THEN 0
  ELSE LET rc == CHOOSE e \in S : TRUE
       IN  frame[Y0 + rc[1] + 1][X0 + rc[2] + 1] + SumAt(frame, X0, Y0, S \ {rc})

\* sig is the per-frame mean of stack under the mask of mask_result.
IsMaskedMean(sig, stack) ==
  LET S == TruePositions(mask_result[5])
  IN  /\ Len(sig) = Len(stack)
      /\ \A f \in 1..Len(stack) :
           sig[f] = << SumAt(stack[f], mask_result[1], mask_result[2], S),
                       Cardinality(S) >>

\* C3: when the tool supplies an ellipse mask with at least one True pixel,
\* _update_trace_from_roi computes a signal with one value per frame of the
\* stack, the value for frame f being the mean of the pixels of frame f in
\* [Y0:Y1, X0:X1] where the mask is True; channel 2 likewise when present.
C3_MeanPerFrame ==
  (mask_result # None /\ AnyMask(mask_result[5])) =>
    /\ IsMaskedMean(sig1, current_tif)
    /\ current_tif_chan2 # None => IsMaskedMean(sig2, current_tif_chan2)

\* C3 restricted to stacks whose frames have at least two rows and two
\* columns.
C3_FramesOfTwoOrMore ==
  (mask_result # None /\ AnyMask(mask_result[5])
     /\ img_size[1] >= 2 /\ img_size[2] >= 2) =>
    /\ IsMaskedMean(sig1, current_tif)
    /\ current_tif_chan2 # None => IsMaskedMean(sig2, current_tif_chan2)

\* C4: from a right press that starts a translation, through every mouse move
\* and the right release, the bbox keeps the width and height it had at the
\* press.
C4_TranslateKeepsSize ==
  translate_size # None =>
    /\ bbox # None
    /\ <<bbox[3], bbox[4]>> = translate_size

\* C4 witness: a move of a translation has put the bbox somewhere else, flush
\* with an edge of the draw rect.
C4_Witness ==
  /\ translate_size # None
  /\ dragging /\ mode = "translate"
  /\ roi_event = Call("move", "none", TRUE)
  /\ bbox # bbox_origin
  /\ \/ bbox[1] = draw_rect[1] * U
     \/ bbox[1] + bbox[3] = (draw_rect[1] + draw_rect[3]) * U

\* The call handled in this step emitted the signal called name.
Emitted(name) == \E i \in 1..Len(roi_signals') : roi_signals'[i][1] = name

\* What every handled call does about signals: roiChanged only from a move
\* during a drag, roiFinalized only from the release that ends the drag and
\* once; presses and the selection calls emit nothing; a move or release
\* with no drag active emits nothing and leaves the bbox alone.
EmitsOnlyInDrag ==
  /\ Emitted("roiChanged") => (roi_event'.type = "move" /\ dragging)
  /\ Emitted("roiFinalized") =>
       /\ roi_event'.type = "release" /\ dragging /\ ~dragging'
       /\ \/ mode = "draw" /\ roi_event'.button = "left"
          \/ mode = "translate" /\ roi_event'.button = "right"
       /\ Len(roi_signals') = 1
  /\ roi_event'.type \in {"press", "clear", "clear_selection",
                          "show_bbox_image_coords"} => roi_signals' = <<>>
  /\ (roi_event'.type \in {"move", "release"} /\ ~dragging) =>
       (roi_signals' = <<>> /\ bbox' = bbox)

\* C5 as stated: in addition, a press leaves the bbox unchanged.
C5_PressLeavesBbox ==
  [][ events' # events =>
        /\ EmitsOnlyInDrag
        /\ roi_event'.type = "press" => bbox' = bbox ]_vars

\* C5: over any sequence of mouse events and calls of clear, clear_selection
\* and show_bbox_image_coords, roiChanged is emitted only by a move during an
\* active drag, roiFinalized only by the release that ends an active drag
\* (left for a draw, right for a translation) and at most once; a press emits
\* nothing, changing the bbox only when it is a left press inside the draw
\* rect, which starts a new bbox of minimum size at the press point; a move
\* or release with no drag active emits nothing and leaves the bbox unchanged.
C5_EmitsOnlyInDrag ==
  [][ events' # events =>
        /\ EmitsOnlyInDrag
        /\ roi_event'.type = "press" =>
             IF roi_event'.button = "left" /\ roi_event'.ret
               THEN bbox' = <<start_pos'[1], start_pos'[2], U, U>>
               ELSE bbox' = bbox ]_vars

\* C5 witness: the right release that ends a translation emitted roiFinalized.
C5_Witness ==
  /\ roi_event = Call("release", "right", TRUE)
  /\ Len(roi_signals) = 1
  /\ roi_signals[1][1] = "roiFinalized"


\* ------------------------------------------------------------------------
\* Claims about DirManager
\* ------------------------------------------------------------------------

\* C6: a call of add, remove or clear emits directoriesChanged once if the
\* call changed the stored list and not at all if it did not (add of paths
\* that are all present, remove of paths that are all absent, clear of an
\* empty list), and the payload is what list() returns after the call.
C6_EmitsIffChanged ==
  dir_call.op # "init" =>
    /\ Len(dir_emitted) = (IF dirs # dir_before THEN 1 ELSE 0)
    /\ \A i \in 1..Len(dir_emitted) : dir_emitted[i] = DirList(dirs)
    /\ ( /\ dir_call.op = "add"
         /\ \A i \in 1..Len(dir_call.paths) : Contains(dir_before, dir_call.paths[i]) )
       => dir_emitted = <<>>
    /\ ( /\ dir_call.op = "remove"
         /\ \A i \in 1..Len(dir_call.paths) : ~Contains(dir_before, dir_call.paths[i]) )
       => dir_emitted = <<>>
    /\ (dir_call.op = "clear" /\ dir_before = <<>>) => dir_emitted = <<>>

\* C6 witness: a remove that named a present and an absent path took one of
\* two equal entries away and announced the list that remains.
C6_Witness ==
  /\ dir_call.op = "remove"
  /\ Len(dir_call.paths) = 2
  /\ Contains(dir_before, dir_call.paths[1])
  /\ ~Contains(dir_before, dir_call.paths[2])
  /\ Len(dir_emitted) = 1
  /\ dirs # <<>>
  /\ Contains(dirs, dir_call.paths[1])

\* ------------------------------------------------------------------------
\* Claims about RegistrationWorker
\* ------------------------------------------------------------------------

\* The number of signals of out called name.
CountOf(out, name) == Cardinality({ k \in 1..Len(out) : out[k][1] = name })

\* The directory numbers of the "[i/n] Registering" lines of out, in order.
Headers(out) ==
  LET h == SelectSeq(out, LAMBDA e : e[1] = "log" /\ e[2] = "Registering")
  IN  [k \in 1..Len(h) |-> h[k][3]]

\* C7: whatever the directories hold and whether or not an exception occurs,
\* run() emits finished exactly once, as its last signal, and does not stop
\* before doing so.
C7_FinishedOnceAndLast ==
  /\ CountOf(reg_out, "finished") = (IF reg_pc = "done" THEN 1 ELSE 0)
  /\ reg_pc = "done" => reg_out[Len(reg_out)] = <<"finished">>
  /\ reg_pc # "done" => ENABLED NextReg

\* C7 witness: a run that went through a directory, met an exception in the
\* next one, emitted error and then finished.
C7_Witness ==
  /\ reg_pc = "done"
  /\ reg_i = 2
  /\ reg_exc # None
  /\ CountOf(reg_out, "error") = 1
  /\ reg_out[Len(reg_out)] = <<"finished">>

\* C8: run() takes the directories in list order, and a failure in one
\* directory is only logged and does not keep the others from being
\* processed: a finished run has emitted "[i/n] Registering" for every
\* i = 1..n, in increasing order, and no error.
C8_EveryDirRegistered ==
  reg_pc = "done" =>
    /\ Headers(reg_out) = [k \in 1..Len(reg_dirs) |-> k]
    /\ CountOf(reg_out, "error") = 0

\* C9: every exception raised while run() processes a directory is announced
\* by error, with the exception's message, before finished.
C9_ErrorOnException ==
  reg_pc = "done" =>
    \A k \in 1..Len(reg_raised) :
      \E j \in 1..(Len(reg_out) - 1) : reg_out[j] = <<"error", reg_raised[k]>>


\* ------------------------------------------------------------------------
\* Claims about BnCDialog
\* ------------------------------------------------------------------------

\* C10: once a min, max, brightness or contrast slider change has modified
\* the current channel's settings, settings_changed is emitted for that
\* channel with its settings, at the latest when the 50 ms timer has fired
\* with no further slider change: while a channel's change is unannounced,
\* the timer is still running.
C10_SliderChangeEmitted ==
  (bnc_alive /\ bnc_unsent # {}) => bnc_timer

\* ------------------------------------------------------------------------
\* C11
\* ------------------------------------------------------------------------

\* The update types waiting on _update_queue
Queued == { bnc_queue[i] : i \in 1..Len(bnc_queue) }

\* C11: update requests go through the processing thread.  While the dialog
\* is open, the _queue_update() of the debounce timer leaves 'histogram' on
\* _update_queue, the queue never holds two requests of one type, and every
\* emission of settings_changed is a step of the processing thread.
C11_WorkerProcessesUpdates ==
  [][ /\ (bnc_timer /\ ~bnc_timer' /\ ~bnc_stop) => "histogram" \in Queued'
      /\ Cardinality(Queued') = Len(bnc_queue')
      /\ bnc_signals' # <<>> => bnc_worker = "get" /\ bnc_worker' = "test" ]_vars

\* ------------------------------------------------------------------------
\* C12
\* ------------------------------------------------------------------------

\* The modes whose flag is True
ZprojOn == { m \in Modes : zproj_flags[m] }

\* C12: at most one of _zproj_std, _zproj_max, _zproj_mean is True, and
\* after _on_zproj_toggled(mode, True) the flag of mode is the one that is.
C12_OneProjection ==
  /\ Cardinality(ZprojOn) <= 1
  /\ (zproj_call.op = "toggled" /\ zproj_call.checked)
       => ZprojOn = {zproj_call.mode}

\* The mean button has been checked after at least two earlier calls and the
\* mean projection of a stack is shown.
C12_Witness ==
  /\ zproj_call.op = "toggled"
  /\ zproj_call.checked
  /\ zproj_call.mode = "mean"
  /\ zproj_shown = "mean"
  /\ ZprojOn = {"mean"}
  /\ zproj_events >= 3

\* ------------------------------------------------------------------------
\* C13
\* ------------------------------------------------------------------------

\* C13: once Escape is handled the tool has no bbox, window._last_roi_xyxy
\* and _editing_roi_index are None and the saved ROIs are as before; an R
\* that follows at once saves nothing.
C13_EscapeClearsRoi ==
  [][ /\ roi_event'.type = "escape" =>
           /\ bbox' = None
           /\ last_roi_xyxy' = None
           /\ editing_roi_index' = None
           /\ saved_rois' = saved_rois
      /\ (roi_event.type = "escape" /\ roi_event'.type = "add_roi") =>
           saved_rois' = saved_rois ]_vars

\* ------------------------------------------------------------------------
\* C14
\* ------------------------------------------------------------------------

\* The kind of data the call prefers and the other kind.
Preferred(in) == IF in.use_registered THEN "registered" ELSE "raw"

Exists(in, kind) ==
  IF kind = "registered" THEN in.has_registered_tif ELSE in.has_raw_numpy

Other(kind) == IF kind = "registered" THEN "raw" ELSE "registered"

\* C14: load_experiment_data runs the loader of the preferred kind when its
\* file exists, else the loader of the other kind when that exists, else
\* none and reports 'No suitable image files found in directory'; success
\* is True exactly when result['tif'] is not None; an exception while
\* loading gives success = False with error set.
C14_LoadResult ==
  load_result # None =>
    LET in == load_in
        r == load_result
        pref == Preferred(in)
    IN  /\ Exists(in, pref) => load_ran = << pref >>
        /\ (~Exists(in, pref) /\ Exists(in, Other(pref)))
             => load_ran = << Other(pref) >>
        /\ (~Exists(in, pref) /\ ~Exists(in, Other(pref)))
             => /\ load_ran = <<>>
                /\ ~r.success
                /\ r.tif = None
                /\ r.error = "No suitable image files found in directory"
        /\ r.success <=> r.tif # None
        /\ (load_ran # <<>> /\ (in.ch1 = Raises \/ (in.chan2_file /\ in.ch2 = Raises)))
             => ~r.success /\ r.error # NoStr

\* ------------------------------------------------------------------------
\* C15
\* ------------------------------------------------------------------------

\* The value v is the one of rank k (from 0) among the values of g.
HasRank(g, v, k) ==
  /\ \E t \in 1..Len(g) : g[t] = v
  /\ Cardinality({ t \in 1..Len(g) : g[t] < v }) <= k
  /\ Cardinality({ t \in 1..Len(g) : g[t] <= v }) > k

\* f0 / 5 is the 20th percentile of g: the value at rank 0.2 * (n - 1),
\* linearly between the neighbouring ranks.
IsPercentile20(g, f0) ==
  LET m == Len(g) - 1
  IN  \E lo \in { g[t] : t \in 1..Len(g) }, hi \in { g[t] : t \in 1..Len(g) } :
        /\ HasRank(g, lo, m \div 5)
        /\ HasRank(g, hi, IF m % 5 = 0 THEN m \div 5 ELSE m \div 5 + 1)
        /\ f0 = 5 * lo + (m % 5) * (hi - lo)

InsideDrawRect(b, rect) ==
  /\ rect[1] * U <= b[1]
  /\ rect[2] * U <= b[2]
  /\ b[1] + b[3] <= (rect[1] + rect[3]) * U
  /\ b[2] + b[4] <= (rect[2] + rect[4]) * U

\* C16: with a draw rect set, after every mouse move handled in translate
\* mode the bbox lies inside the draw rect.
C16_TranslateStaysInside ==
  (roi_event.type = "move" /\ roi_event.ret /\ mode = "translate"
     /\ draw_rect # None)
    => InsideDrawRect(bbox, draw_rect)

\* ------------------------------------------------------------------------
\* C17
\* ------------------------------------------------------------------------

\* The coordinate v (units) is nearest to pixel px >= 0, a tie going to the
\* pixel further from zero.
NearestPixel(v, px) ==
  IF px = 0 THEN -U < 2 * v /\ 2 * v < U
  ELSE (2 * px - 1) * U <= 2 * v /\ 2 * v < (2 * px + 1) * U

\* The position p is on one of the pixels of the draw rect.
OnDrawRect(p) ==
  /\ draw_rect # None
  /\ \E px \in draw_rect[1]..(draw_rect[1] + draw_rect[3] - 1) :
       NearestPixel(p[1], px)
  /\ \E py \in draw_rect[2]..(draw_rect[2] + draw_rect[4] - 1) :
       NearestPixel(p[2], py)

\* The position p is within the bbox enlarged by one pixel on every side.
NearBbox(p) ==
  /\ bbox # None
  /\ bbox[1] - U <= p[1] /\ p[1] <= bbox[1] + bbox[3] + U
  /\ bbox[2] - U <= p[2] /\ p[2] <= bbox[2] + bbox[4] + U

\* What a press of button b at p must do.
PressOutcome(b, p) ==
  IF b = "left" /\ OnDrawRect(p)
    THEN /\ roi_event'.ret
         /\ mode' = "draw"
         /\ dragging'
         /\ start_pos' = p
         /\ bbox' = <<p[1], p[2], U, U>>
  ELSE IF b = "right" /\ NearBbox(p)
    THEN /\ roi_event'.ret
         /\ mode' = "translate"
         /\ dragging'
         /\ translate_anchor' = p
         /\ bbox_origin' = bbox
         /\ bbox' = bbox
  ELSE /\ ~roi_event'.ret
       /\ UNCHANGED <<draw_rect, img_size, base_pixmap, start_pos, current_pos,
                      bbox, dragging, mode, translate_anchor, bbox_origin>>

\* C17: a left press starts a draw (mode 'draw', dragging, a 1x1 bbox at the
\* press point) exactly when a draw rect is set and the press is on it; a
\* right press starts a translation exactly when a bbox exists and the press
\* is within the bbox enlarged by one pixel; any other press is not consumed
\* and changes no tool state.
C17_PressHitTest ==
  [][ \A b \in Buttons, p \in MousePts :
        MousePress(b, p) => PressOutcome(b, p) ]_vars

\* A right press in the one-pixel margin, left of the bbox, has started a
\* translation.
C17_Witness ==
  /\ roi_event.type = "press"
  /\ roi_event.button = "right"
  /\ roi_event.ret
  /\ mode = "translate"
  /\ bbox # None
  /\ translate_anchor # None
  /\ translate_anchor[1] = bbox[1] - U

\* ------------------------------------------------------------------------
\* C18
\* ------------------------------------------------------------------------

\* C18: every tuple (X0, Y0, X1, Y1) emitted by roiChanged or roiFinalized and
\* every rectangle returned by get_ellipse_mask is a non-empty rectangle
\* inside the image, 0 <= X0 < X1 <= img_w and 0 <= Y0 < Y1 <= img_h, also
\* when a drag leaves the displayed image.
C18_ReportedInsideImage ==
  \A r \in Reported :
    /\ img_size # None
    /\ 0 <= r[1] /\ r[1] < r[3] /\ r[3] <= img_size[1]
    /\ 0 <= r[2] /\ r[2] < r[4] /\ r[4] <= img_size[2]

\* A mouse move has emitted a rectangle while the bbox reaches beyond the
\* right and bottom edges of the draw rect.
C18_Witness ==
  /\ roi_event.type = "move"
  /\ roi_signals # <<>>
  /\ bbox # None
  /\ draw_rect # None
  /\ bbox[1] + bbox[3] > (draw_rect[1] + draw_rect[3]) * U
  /\ bbox[2] + bbox[4] > (draw_rect[2] + draw_rect[4]) * U

====
